---------------------------- MODULE Spec2Model ----------------------------
(***************************************************************************)
(* A model of the SmartRecon matching pipeline:                            *)
(*   - ExactMatchingEngine  (src/src/modules/exact_matching_engine.py)     *)
(*   - FuzzyMatcher         (src/src/modules/fuzzy_matching.py)            *)
(*                                                                         *)
(* Conventions.                                                            *)
(*   Text is a sequence of one-character strings, so that normalisation    *)
(*   and truncation are computed character by character.                   *)
(*   Amounts are integers in thousandths (10004 is 10.004); NaN stands for *)
(*   a missing or unparseable amount.  Dates are day numbers; NaT stands   *)
(*   for a missing or unparseable date.                                    *)
(*   Exact-chain confidences are in thousandths of the engine's 0..1 scale *)
(*   (1000 is 1.0); fuzzy confidences are in thousandths of a point of the *)
(*   matcher's 0..100 scale (100000 is 100.0).                             *)
(***************************************************************************)
EXTENDS Integers, Sequences, FiniteSets, TLC

VARIABLES
    pc,                 \* position inside reconcile_exact_matches
    gl_data,            \* argument gl_data:   [columns, rows]
    bank_data,          \* argument bank_data: [columns, rows]
    match_strategies,   \* argument match_strategies (<<>> is None / empty)
    matching_session,   \* self.matching_session
    performance_stats,  \* self.performance_stats
    gl_prepared,        \* local gl_prepared (the GL candidate pool)
    bank_prepared,      \* local bank_prepared (the bank candidate pool)
    strategy_pos,       \* number of strategies of the loop already applied
    outcome,            \* what the caller got: "none", "session" or "error"
    params,             \* self.params (the configurable matching parameters)
    fpc,                \* position inside the FuzzyMatcher calls
    fgl_data,           \* argument gl_data of find_fuzzy_matches
    fbank_data,         \* argument bank_data of find_fuzzy_matches
    library_scores,     \* what fuzzywuzzy/jellyfish answer for each pair
    fuzzy_matches,      \* self.fuzzy_matches
    potential_matches,  \* self.potential_matches
    gl_pos,             \* number of GL rows the outer loop has processed
    funmatched,         \* result of FuzzyMatcher.get_unmatched_records
    xpc,                \* position inside ExceptionHandler.process_exceptions
    unmatched_df1,      \* argument unmatched_df1 (rows, in frame order)
    unmatched_df2,      \* argument unmatched_df2 (rows, in frame order)
    current_date,       \* what datetime.now() answers, as a day number
    exception_results,  \* the results dictionary process_exceptions returns
    workflow            \* position of the calling program: the workflow
                        \* that calls the three engines in a row, or the
                        \* caller that uses one exact engine for two calls
                        \* ("none": an engine used alone, once)

exactVars == <<pc, gl_data, bank_data, match_strategies, matching_session,
               performance_stats, gl_prepared, bank_prepared, strategy_pos,
               outcome, params>>
fuzzyVars == <<fpc, fgl_data, fbank_data, library_scores, fuzzy_matches,
               potential_matches, gl_pos, funmatched>>
exceptionVars == <<xpc, unmatched_df1, unmatched_df2, current_date,
                   exception_results>>
vars == <<exactVars, fuzzyVars, exceptionVars, workflow>>

\* A cell of a column: a value, or missing (NaN, NaT, None).
Missing == [missing |-> TRUE,  v |-> 0]
Num(n)  == [missing |-> FALSE, v |-> n]
NaN     == Missing
NaT     == Missing

\* A text cell: a string, or None.
None    == [missing |-> TRUE,  s |-> <<>>]
Text(s) == [missing |-> FALSE, s |-> s]

Min(a, b) == IF a <= b THEN a ELSE b
Max(a, b) == IF a >= b THEN a ELSE b
Abs(a)    == IF a >= 0 THEN a ELSE -a

Range(s) == {s[i] : i \in DOMAIN s}

RECURSIVE SeqsUpTo(_, _)
SeqsUpTo(S, n) ==
    IF n = 0 THEN {<<>>}
    ELSE LET shorter == SeqsUpTo(S, n - 1)
         IN shorter \cup {Append(s, x) : s \in {t \in shorter : Len(t) = n - 1}, x \in S}

---------------------------------------------------------------------------
(* Text helpers: str.split/join, str.lower, str.replace, str.strip *)

UpperCase == <<"A", "B", "C", "D", "E", "F", "P", "R", "X", "Y">>
LowerCase == <<"a", "b", "c", "d", "e", "f", "p", "r", "x", "y">>

LowerChar(c) ==
    IF \E i \in DOMAIN UpperCase : UpperCase[i] = c
    THEN LowerCase[CHOOSE i \in DOMAIN UpperCase : UpperCase[i] = c]
    ELSE c

Lower(s) == [i \in DOMAIN s |-> LowerChar(s[i])]

IsSpace(c) == c \in {" ", "\t"}

RECURSIVE JoinSplit(_, _, _)
JoinSplit(s, acc, gap) ==
    IF s = <<>> THEN acc
    ELSE IF IsSpace(Head(s)) THEN JoinSplit(Tail(s), acc, acc # <<>>)
    ELSE JoinSplit(Tail(s), (IF gap THEN Append(acc, " ") ELSE acc) \o <<Head(s)>>, FALSE)

RemoveChars(s, cs) ==
    LET Keep(c) == c \notin cs IN SelectSeq(s, Keep)

RECURSIVE StripLeft(_)
StripLeft(s) ==
    IF s # <<>> /\ IsSpace(Head(s)) THEN StripLeft(Tail(s)) ELSE s

RECURSIVE StripRight(_)
StripRight(s) ==
    IF s # <<>> /\ IsSpace(s[Len(s)]) THEN StripRight(SubSeq(s, 1, Len(s) - 1)) ELSE s

Strip(s) == StripRight(StripLeft(s))

Prefix(s, n) == SubSeq(s, 1, Min(n, Len(s)))

---------------------------------------------------------------------------
(* ExactMatchingEngine: parameters *)

amount_precision == 2
amount_tolerance == 10
remove_whitespace == TRUE
case_sensitive == FALSE
currency_symbol_ignore == TRUE
CompositeDescLen == 30
DescKeyLen == 20

\* self.params as __init__ leaves it (amounts in thousandths)
default_params == [amount_tolerance |-> amount_tolerance]

\* One step of the rounded scale (0.01) in thousandths.
ThousandthsPerUnit == 10 ^ (3 - amount_precision)

\* A default order that tries the description key before the plain key.
DefaultStrategiesDescFirst ==
    <<"reference_exact", "amount_date_desc", "amount_date_exact",
      "composite_key", "amount_tolerance">>

_get_default_strategies ==
    <<"reference_exact", "amount_date_exact", "amount_date_desc",
      "composite_key", "amount_tolerance">>

StrategyNames == Range(_get_default_strategies)

required_columns == {"date", "amount", "description"}

---------------------------------------------------------------------------
(* Record Normalizer *)

_normalize_description(desc) ==
    IF desc.missing THEN <<>>
    ELSE LET n1 == IF remove_whitespace THEN JoinSplit(desc.s, <<>>, FALSE) ELSE desc.s
             n2 == IF ~case_sensitive THEN Lower(n1) ELSE n1
             n3 == IF currency_symbol_ignore
                   THEN RemoveChars(n2, {"$", ","})
                   ELSE n2
         IN Strip(n3)

_normalize_reference(ref) ==
    IF Lower(ref) \in {<<"n", "a", "n">>, <<"n", "o", "n", "e">>, <<>>} THEN <<>>
    ELSE LET n1 == Strip(ref)
             n2 == IF ~case_sensitive THEN Lower(n1) ELSE n1
         IN RemoveChars(n2, {"-", "_", " "})

\* Series.round(amount_precision): to the nearest hundredth, ties to even.
RoundAmount(a) ==
    IF a.missing THEN NaN
    ELSE LET q == a.v \div ThousandthsPerUnit
             r == a.v % ThousandthsPerUnit
         IN IF 2 * r < ThousandthsPerUnit THEN Num(q * ThousandthsPerUnit)
            ELSE IF 2 * r > ThousandthsPerUnit THEN Num((q + 1) * ThousandthsPerUnit)
            ELSE IF q % 2 = 0 THEN Num(q * ThousandthsPerUnit)
            ELSE Num((q + 1) * ThousandthsPerUnit)

\* f"{amount_rounded:.2f}": NaN prints as the text "nan".
FormatAmount(r) == IF r.missing THEN "nan" ELSE ToString(r.v \div ThousandthsPerUnit)

\* date.dt.strftime('%Y-%m-%d'): NaT gives NaN.
DateStr(d) == IF d.missing THEN NaN ELSE d

\* f"{date_str}": NaN prints as the text "nan".
FormatDateStr(ds) == IF ds.missing THEN "nan" ELSE ToString(ds.v)

AmountDateKey(date_str, amount_rounded) ==
    <<FormatDateStr(date_str), FormatAmount(amount_rounded)>>

\* md5 of the '|'-joined components; two keys are equal exactly when the
\* components are (md5 collisions aside).
_create_composite_key(date_str, amount_rounded, description_normalized, reference_normalized) ==
    <<FormatDateStr(date_str), FormatAmount(amount_rounded),
      Prefix(description_normalized, CompositeDescLen), reference_normalized>>

\* A preparation that writes the normalized description over the column it
\* read.
PrepareRowInPlace(row, idx, hasReference, data_type) ==
    LET date_str       == DateStr(row.date)
        amount_rounded == RoundAmount(row.amount)
        desc_n         == _normalize_description(row.description)
        ref_n          == IF hasReference /\ ~row.reference.missing
                          THEN _normalize_reference(row.reference.s)
                          ELSE <<>>
    IN [original_index         |-> idx,
        data_source            |-> data_type,
        date                   |-> row.date,
        amount                 |-> row.amount,
        description            |-> Text(desc_n),
        reference              |-> row.reference,
        date_str               |-> date_str,
        amount_numeric         |-> row.amount,
        amount_rounded         |-> amount_rounded,
        description_normalized |-> desc_n,
        reference_normalized   |-> ref_n,
        amount_date_key        |-> AmountDateKey(date_str, amount_rounded),
        composite_key          |-> _create_composite_key(date_str, amount_rounded, desc_n, ref_n)]

\* One row of the frame _prepare_exact_matching_data returns: the columns
\* of the copy (date, amount, description, reference) and the added ones.
PrepareRow(row, idx, hasReference, data_type) ==
    LET date_str       == DateStr(row.date)
        amount_rounded == RoundAmount(row.amount)
        desc_n         == _normalize_description(row.description)
        ref_n          == IF hasReference /\ ~row.reference.missing
                          THEN _normalize_reference(row.reference.s)
                          ELSE <<>>
    IN [original_index         |-> idx,
        data_source            |-> data_type,
        date                   |-> row.date,
        amount                 |-> row.amount,
        description            |-> row.description,
        reference              |-> row.reference,
        date_str               |-> date_str,
        amount_numeric         |-> row.amount,
        amount_rounded         |-> amount_rounded,
        description_normalized |-> desc_n,
        reference_normalized   |-> ref_n,
        amount_date_key        |-> AmountDateKey(date_str, amount_rounded),
        composite_key          |-> _create_composite_key(date_str, amount_rounded, desc_n, ref_n)]

_prepare_exact_matching_data(data, data_type) ==
    [i \in DOMAIN data.rows |->
        PrepareRow(data.rows[i], i - 1, "reference" \in data.columns, data_type)]

---------------------------------------------------------------------------
(* Exact strategies.  A match is                                           *)
(*   [match_strategy, confidence, gl_index, bank_index]                    *)
(* where gl_index / bank_index are gl_record['index'] / bank_record['index'] *)

AllPairs(m, n) ==
    [k \in 1..(m * n) |-> <<((k - 1) \div n) + 1, ((k - 1) % n) + 1>>]

\* pd.merge(left, right, on=key, how='inner'): every left row with every
\* right row of the same key, in the order of the left rows.
\* left_on / right_on hold the key column of the two frames, row by row.
InnerMerge(left_on, right_on) ==
    LET Same(p) == left_on[p[1]] = right_on[p[2]]
    IN SelectSeq(AllPairs(Len(left_on), Len(right_on)), Same)


\* data[~data['original_index'].isin(indices)]
WithoutIndices(data, indices) ==
    LET Keep(r) == r.original_index \notin indices IN SelectSeq(data, Keep)

\* The body shared by the four key strategies: one match per merged row,
\* then every record that occurs in a merged row leaves its pool.
MatchMerged(merged, left, right, gl_data_, bank_data_, strategy) ==
    LET matches == [k \in DOMAIN merged |->
                      [match_strategy |-> strategy,
                       confidence     |-> 1000,
                       gl_index       |-> left[merged[k][1]].original_index,
                       bank_index     |-> right[merged[k][2]].original_index]]
        matched_gl_indices   == {matches[k].gl_index : k \in DOMAIN matches}
        matched_bank_indices == {matches[k].bank_index : k \in DOMAIN matches}
    IN [matches |-> matches,
        gl      |-> WithoutIndices(gl_data_, matched_gl_indices),
        bank    |-> WithoutIndices(bank_data_, matched_bank_indices),
        raised  |-> FALSE]

ReferenceKey(r) == r.reference_normalized

\* A reference merge over the whole pools, records without a reference
\* included.
MatchByReferenceUnfiltered(gl, bank) ==
    IF Len(gl) = 0 \/ Len(bank) = 0
    THEN [matches |-> <<>>, gl |-> gl, bank |-> bank, raised |-> FALSE]
    ELSE MatchMerged(InnerMerge([k \in DOMAIN gl |-> ReferenceKey(gl[k])],
                                [k \in DOMAIN bank |-> ReferenceKey(bank[k])]),
                     gl, bank, gl, bank, "reference_exact")

_match_by_reference(gl, bank) ==
    LET HasRef(r)     == r.reference_normalized # <<>>
        gl_with_ref   == SelectSeq(gl, HasRef)
        bank_with_ref == SelectSeq(bank, HasRef)
    IN IF Len(gl_with_ref) = 0 \/ Len(bank_with_ref) = 0
       THEN [matches |-> <<>>, gl |-> gl, bank |-> bank, raised |-> FALSE]
       ELSE MatchMerged(InnerMerge([k \in DOMAIN gl_with_ref |-> ReferenceKey(gl_with_ref[k])],
                                   [k \in DOMAIN bank_with_ref |-> ReferenceKey(bank_with_ref[k])]),
                        gl_with_ref, bank_with_ref, gl, bank, "reference_exact")

AmountDateKeyOf(r) == r.amount_date_key

_match_by_amount_date(gl, bank) ==
    MatchMerged(InnerMerge([k \in DOMAIN gl |-> AmountDateKeyOf(gl[k])],
                           [k \in DOMAIN bank |-> AmountDateKeyOf(bank[k])]), gl, bank, gl, bank,
                "amount_date_exact")

AmountDateDescKey(r) ==
    <<r.amount_date_key, Prefix(r.description_normalized, DescKeyLen)>>

\* gl_enhanced['amount_date_desc_key'] = gl_enhanced.apply(..., axis=1):
\* on a frame without rows, apply returns a frame, not a column, and the
\* assignment raises ValueError.
_match_by_amount_date_description(gl, bank) ==
    IF Len(gl) = 0 \/ Len(bank) = 0
    THEN [matches |-> <<>>, gl |-> gl, bank |-> bank, raised |-> TRUE]
    ELSE MatchMerged(InnerMerge([k \in DOMAIN gl |-> AmountDateDescKey(gl[k])],
                           [k \in DOMAIN bank |-> AmountDateDescKey(bank[k])]), gl, bank, gl, bank,
                     "amount_date_description")

CompositeKeyOf(r) == r.composite_key

_match_by_composite_key(gl, bank) ==
    MatchMerged(InnerMerge([k \in DOMAIN gl |-> CompositeKeyOf(gl[k])],
                           [k \in DOMAIN bank |-> CompositeKeyOf(bank[k])]), gl, bank, gl, bank,
                "composite_key")

\* A tolerance comparison of the magnitudes (amount_abs) of the two amounts.
ToleranceMatchAbs(g, b, tolerance) ==
    /\ ~g.amount_numeric.missing
    /\ ~b.amount_numeric.missing
    /\ Abs(Abs(g.amount_numeric.v) - Abs(b.amount_numeric.v)) <= tolerance
    /\ ~g.date_str.missing
    /\ ~b.date_str.missing
    /\ g.date_str.v = b.date_str.v

\* amount_diff <= tolerance and date_match; a NaN amount or a NaN date_str
\* makes the comparison false.
ToleranceMatch(g, b, tolerance) ==
    /\ ~g.amount_numeric.missing
    /\ ~b.amount_numeric.missing
    /\ Abs(g.amount_numeric.v - b.amount_numeric.v) <= tolerance
    /\ ~g.date_str.missing
    /\ ~b.date_str.missing
    /\ g.date_str.v = b.date_str.v

\* 1.0 - (amount_diff / tolerance) * 0.1, in thousandths
ToleranceConfidence(g, b, tolerance) ==
    1000 - (Abs(g.amount_numeric.v - b.amount_numeric.v) * 100) \div tolerance

\* The nested loops: positions i (GL) and j (bank) of the current pools.
RECURSIVE ToleranceLoop(_, _, _, _, _, _, _)
ToleranceLoop(gl, bank, tolerance, i, matched_gl, matched_bank, matches) ==
    IF i > Len(gl)
    THEN [matches |-> matches, matched_gl |-> matched_gl, matched_bank |-> matched_bank]
    ELSE LET cand == {j \in DOMAIN bank :
                        j \notin matched_bank /\ ToleranceMatch(gl[i], bank[j], tolerance)}
         IN IF cand = {}
            THEN ToleranceLoop(gl, bank, tolerance, i + 1, matched_gl, matched_bank, matches)
            ELSE LET j == CHOOSE x \in cand : \A y \in cand : x <= y
                 IN ToleranceLoop(gl, bank, tolerance, i + 1,
                        matched_gl \cup {i}, matched_bank \cup {j},
                        Append(matches,
                               [match_strategy |-> "amount_tolerance",
                                confidence     |-> ToleranceConfidence(gl[i], bank[j], tolerance),
                                gl_index       |-> gl[i].original_index,
                                bank_index     |-> bank[j].original_index]))

PositionsNotIn(data, matched) ==
    LET idx == SelectSeq([k \in DOMAIN data |-> k], LAMBDA k : k \notin matched)
    IN [k \in DOMAIN idx |-> data[idx[k]]]

\* tolerance = self.params['amount_tolerance'] (line 515)
_match_by_amount_tolerance(gl, bank, self_params) ==
    LET r == ToleranceLoop(gl, bank, self_params.amount_tolerance, 1, {}, {}, <<>>)
    IN [matches |-> r.matches,
        gl      |-> PositionsNotIn(gl, r.matched_gl),
        bank    |-> PositionsNotIn(bank, r.matched_bank),
        raised  |-> FALSE]

\* A dispatch that raises on a name it does not know.
ApplyStrategyRaisingOnUnknown(strategy, gl, bank, self_params) ==
    IF strategy = "reference_exact" THEN _match_by_reference(gl, bank)
    ELSE IF strategy = "amount_date_exact" THEN _match_by_amount_date(gl, bank)
    ELSE IF strategy = "amount_date_desc" THEN _match_by_amount_date_description(gl, bank)
    ELSE IF strategy = "composite_key" THEN _match_by_composite_key(gl, bank)
    ELSE IF strategy = "amount_tolerance" THEN _match_by_amount_tolerance(gl, bank, self_params)
    ELSE [matches |-> <<>>, gl |-> gl, bank |-> bank, raised |-> TRUE]

\* lines 308-333; the else branch (lines 329-331) logs a warning and returns
\* no match and the two pools
_apply_exact_matching_strategy(strategy, gl, bank, self_params) ==
    IF strategy = "reference_exact" THEN _match_by_reference(gl, bank)
    ELSE IF strategy = "amount_date_exact" THEN _match_by_amount_date(gl, bank)
    ELSE IF strategy = "amount_date_desc" THEN _match_by_amount_date_description(gl, bank)
    ELSE IF strategy = "composite_key" THEN _match_by_composite_key(gl, bank)
    ELSE IF strategy = "amount_tolerance" THEN _match_by_amount_tolerance(gl, bank, self_params)
    ELSE [matches |-> <<>>, gl |-> gl, bank |-> bank, raised |-> FALSE]

---------------------------------------------------------------------------
(* Session statistics and validation *)

\* A distribution whose tests are not chained: a match counts in every band
\* whose limit it reaches.
ConfidenceDistributionUnchained(exact_matches) ==
    [perfect    |-> Len(SelectSeq(exact_matches, LAMBDA m : m.confidence = 1000)),
     high       |-> Len(SelectSeq(exact_matches, LAMBDA m : m.confidence >= 950)),
     medium     |-> Len(SelectSeq(exact_matches, LAMBDA m : m.confidence >= 900)),
     acceptable |-> Len(SelectSeq(exact_matches, LAMBDA m : m.confidence < 900))]

\* lines 633-642: the chain of tests == 1.0, >= 0.95, >= 0.90, else
_calculate_confidence_distribution(exact_matches) ==
    [perfect    |-> Len(SelectSeq(exact_matches, LAMBDA m : m.confidence = 1000)),
     high       |-> Len(SelectSeq(exact_matches, LAMBDA m : m.confidence # 1000 /\ m.confidence >= 950)),
     medium     |-> Len(SelectSeq(exact_matches, LAMBDA m : m.confidence < 950 /\ m.confidence >= 900)),
     acceptable |-> Len(SelectSeq(exact_matches, LAMBDA m : m.confidence < 900))]

_calculate_match_statistics(session) ==
    LET used == {session.exact_matches[k].match_strategy : k \in DOMAIN session.exact_matches}
    IN [total_exact_matches |-> Len(session.exact_matches),
        gl_unmatched        |-> Len(session.unmatched_gl),
        bank_unmatched      |-> Len(session.unmatched_bank),
        strategy_breakdown  |->
            [st \in used |-> Len(SelectSeq(session.exact_matches, LAMBDA m : m.match_strategy = st))],
        confidence_distribution |->
            _calculate_confidence_distribution(session.exact_matches)]

\* The loop of _validate_match_results: a match whose GL index (bank index)
\* was already seen in an earlier match counts one duplicate each.
RECURSIVE CountDuplicates(_, _, _, _, _)
CountDuplicates(exact_matches, k, gl_seen, bank_seen, n) ==
    IF k > Len(exact_matches) THEN n
    ELSE LET m == exact_matches[k]
         IN CountDuplicates(exact_matches, k + 1,
                gl_seen \cup {m.gl_index}, bank_seen \cup {m.bank_index},
                n + (IF m.gl_index \in gl_seen THEN 1 ELSE 0)
                  + (IF m.bank_index \in bank_seen THEN 1 ELSE 0))

_validate_match_results(exact_matches) ==
    LET dup == CountDuplicates(exact_matches, 1, {}, {}, 0)
    IN [data_integrity    |-> dup = 0,
        duplicate_matches |-> dup]

---------------------------------------------------------------------------
(* reconcile_exact_matches *)

NoSession == [state |-> "None"]

\* A session that is created only when both frames hold rows.
NewSessionIfRows(gl, bank, strategies) ==
    IF Len(gl.rows) = 0 \/ Len(bank.rows) = 0 THEN NoSession
    ELSE [state              |-> "session",
          gl_count           |-> Len(gl.rows),
          bank_count         |-> Len(bank.rows),
          strategies_used    |-> strategies,
          exact_matches      |-> <<>>,
          unmatched_gl       |-> <<>>,
          unmatched_bank     |-> <<>>,
          match_statistics   |-> <<>>,
          strategy_performance |-> <<>>,
          validation_results |-> <<>>]

\* lines 99-111
NewSession(gl, bank, strategies) ==
    [state              |-> "session",
     gl_count           |-> Len(gl.rows),
     bank_count         |-> Len(bank.rows),
     strategies_used    |-> strategies,
     exact_matches      |-> <<>>,
     unmatched_gl       |-> <<>>,
     unmatched_bank     |-> <<>>,
     match_statistics   |-> <<>>,
     strategy_performance |-> <<>>,
     validation_results |-> <<>>]

\* match_strategies or self._get_default_strategies()
StrategiesOf(arg) == IF arg = <<>> THEN _get_default_strategies ELSE arg

\* A validation that forgets the bank side.
ValidateGlOnly(gl, bank) ==
    \/ Len(gl.rows) = 0
    \/ ~(required_columns \subseteq gl.columns)

\* TRUE when _validate_reconciliation_data raises DataValidationError.
_validate_reconciliation_data(gl, bank) ==
    \/ Len(gl.rows) = 0
    \/ ~(required_columns \subseteq gl.columns)
    \/ Len(bank.rows) = 0
    \/ ~(required_columns \subseteq bank.columns)

\* lines 97-111: the session is created before anything is checked
StartSession ==
    /\ pc = "idle"
    /\ matching_session' = NewSession(gl_data, bank_data, StrategiesOf(match_strategies))
    /\ pc' = "started"
    /\ UNCHANGED <<gl_data, bank_data, match_strategies, performance_stats,
                   gl_prepared, bank_prepared, strategy_pos, outcome, params>>

\* line 114, and lines 158-160 when it raises
Validate ==
    /\ pc = "started"
    /\ IF _validate_reconciliation_data(gl_data, bank_data)
       THEN pc' = "failed" /\ outcome' = "error"
       ELSE pc' = "validated" /\ outcome' = outcome
    /\ UNCHANGED <<gl_data, bank_data, match_strategies, matching_session,
                   performance_stats, gl_prepared, bank_prepared, strategy_pos,
                   params>>

\* lines 117-121
Prepare ==
    /\ pc = "validated"
    /\ gl_prepared' = _prepare_exact_matching_data(gl_data, "gl")
    /\ bank_prepared' = _prepare_exact_matching_data(bank_data, "bank")
    /\ strategy_pos' = 0
    /\ pc' = "matching"
    /\ UNCHANGED <<gl_data, bank_data, match_strategies, matching_session,
                   performance_stats, outcome, params>>

\* one turn of the loop of lines 123-141, and lines 158-160 when it raises
ApplyStrategy ==
    /\ pc = "matching"
    /\ strategy_pos < Len(StrategiesOf(match_strategies))
    /\ LET strategy == StrategiesOf(match_strategies)[strategy_pos + 1]
           r == _apply_exact_matching_strategy(strategy, gl_prepared, bank_prepared, params)
       IN IF r.raised
          THEN /\ pc' = "failed"
               /\ outcome' = "error"
               /\ UNCHANGED <<matching_session, performance_stats, gl_prepared,
                              bank_prepared, strategy_pos>>
          ELSE /\ matching_session' =
                     [matching_session EXCEPT !.exact_matches = @ \o r.matches]
               /\ performance_stats' =
                     [st \in DOMAIN performance_stats \cup {strategy} |->
                         IF st = strategy
                         THEN [matches_found  |-> Len(r.matches),
                               gl_remaining   |-> Len(r.gl),
                               bank_remaining |-> Len(r.bank)]
                         ELSE performance_stats[st]]
               /\ gl_prepared' = r.gl
               /\ bank_prepared' = r.bank
               /\ strategy_pos' = strategy_pos + 1
               /\ UNCHANGED <<pc, outcome>>
    /\ UNCHANGED <<gl_data, bank_data, match_strategies, params>>

\* lines 143-156
Finalize ==
    /\ pc = "matching"
    /\ strategy_pos = Len(StrategiesOf(match_strategies))
    /\ LET s1 == [matching_session EXCEPT
                     !.unmatched_gl = gl_prepared,
                     !.unmatched_bank = bank_prepared,
                     !.strategy_performance = performance_stats]
       IN matching_session' =
              [s1 EXCEPT !.match_statistics = _calculate_match_statistics(s1),
                         !.validation_results = _validate_match_results(s1.exact_matches)]
    /\ pc' = "done"
    /\ outcome' = "session"
    /\ UNCHANGED <<gl_data, bank_data, match_strategies, performance_stats,
                   gl_prepared, bank_prepared, strategy_pos, params>>

---------------------------------------------------------------------------
(* Inputs of the exact chain *)

\* The two frames of one call hold at most MaxRows rows together.
MaxRows == 3

AllColumns == {"date", "amount", "description", "reference"}

RowA == [date |-> Num(1), amount |-> Num(10000),
         description |-> Text(<<"P", "a", "y">>),
         reference |-> Text(<<"A", "1">>)]
RowB == [date |-> Num(1), amount |-> Num(10004),
         description |-> Text(<<" ", "p", "a", "y">>),
         reference |-> None]
RowC == [date |-> Num(1), amount |-> Num(10010),
         description |-> Text(<<"F", "e", "e">>),
         reference |-> Text(<<"a", "-", "1">>)]
RowD == [date |-> NaT, amount |-> Num(10000),
         description |-> Text(<<"P", "a", "y">>),
         reference |-> None]
RowE == [date |-> Num(1), amount |-> NaN,
         description |-> None,
         reference |-> Text(<<"A", "1">>)]

Rows == {RowA, RowB, RowC, RowD, RowE}

\* A frame with every column; a frame without the optional reference column
\* (its rows carry no reference); a frame lacking one required column (the
\* content of its rows is never read).
Frames(n) ==
    {[columns |-> AllColumns, rows |-> r] : r \in SeqsUpTo(Rows, n)}
    \cup {[columns |-> AllColumns \ {"reference"}, rows |-> r] :
            r \in SeqsUpTo({x \in Rows : x.reference.missing}, n) \ {<<>>}}
    \cup {[columns |-> AllColumns \ {c}, rows |-> <<RowA>>] :
            c \in IF n >= 1 THEN required_columns ELSE {}}

\* None (the default list), one strategy, or two strategies in a row; a
\* name may be one the engine does not know.
StrategyInputs == StrategyNames \cup {"unknown_strategy"}

StrategyArgs ==
    {<<>>} \cup {<<a>> : a \in StrategyInputs}
           \cup {<<a, b>> : a \in StrategyInputs, b \in StrategyInputs}

FuzzyOff ==
    /\ fpc = "off"
    /\ fgl_data = <<>>
    /\ fbank_data = <<>>
    /\ library_scores = <<>>
    /\ fuzzy_matches = <<>>
    /\ potential_matches = <<>>
    /\ gl_pos = 0
    /\ funmatched = <<>>

\* an engine called on its own, outside the workflow
Standalone == workflow = "none"

ExceptionsOff ==
    /\ xpc = "off"
    /\ unmatched_df1 = <<>>
    /\ unmatched_df2 = <<>>
    /\ current_date = 0
    /\ exception_results = <<>>

ExactOff ==
    /\ pc = "off"
    /\ gl_data = <<>>
    /\ bank_data = <<>>
    /\ match_strategies = <<>>
    /\ matching_session = NoSession
    /\ performance_stats = <<>>
    /\ gl_prepared = <<>>
    /\ bank_prepared = <<>>
    /\ strategy_pos = 0
    /\ outcome = "none"
    /\ params = default_params

\* A fresh engine (__init__, lines 54-56) about to be called once.
InitExact ==
    /\ pc = "idle"
    /\ gl_data \in Frames(MaxRows)
    /\ bank_data \in Frames(MaxRows - Len(gl_data.rows))
    /\ match_strategies \in StrategyArgs
    /\ matching_session = NoSession
    /\ performance_stats = <<>>
    /\ gl_prepared = <<>>
    /\ bank_prepared = <<>>
    /\ strategy_pos = 0
    /\ outcome = "none"
    /\ params = default_params
    /\ FuzzyOff
    /\ ExceptionsOff
    /\ Standalone

NextExact ==
    \/ StartSession /\ UNCHANGED <<fuzzyVars, exceptionVars, workflow>>
    \/ Validate /\ UNCHANGED <<fuzzyVars, exceptionVars, workflow>>
    \/ Prepare /\ UNCHANGED <<fuzzyVars, exceptionVars, workflow>>
    \/ ApplyStrategy /\ UNCHANGED <<fuzzyVars, exceptionVars, workflow>>
    \/ Finalize /\ UNCHANGED <<fuzzyVars, exceptionVars, workflow>>

SpecExact == InitExact /\ [][NextExact]_vars

---------------------------------------------------------------------------
(* Inputs of a configured engine: main.py (lines 248-249) and the           *)
(* workflow test overwrite params['amount_tolerance'] before the call.      *)

\* The two frames of one configured call hold at most MaxAmountRows rows.
MaxAmountRows == 4

AmtRow1 == [date |-> Num(1), amount |-> Num(10000),
            description |-> Text(<<"P", "a", "y">>),
            reference |-> Text(<<"A", "1">>)]
AmtRow2 == [date |-> Num(1), amount |-> Num(10015),
            description |-> Text(<<"P", "a", "y">>),
            reference |-> None]
AmtRow3 == [date |-> Num(1), amount |-> Num(10024),
            description |-> Text(<<"P", "a", "y">>),
            reference |-> None]
AmtRow4 == [date |-> Num(1), amount |-> Num(0 - 10000),
            description |-> Text(<<"P", "a", "y">>),
            reference |-> Text(<<"A", "1">>)]
AmtRow5 == [date |-> Num(2), amount |-> Num(10003),
            description |-> Text(<<"P", "a", "y">>),
            reference |-> None]

AmountRows == {AmtRow1, AmtRow2, AmtRow3, AmtRow4, AmtRow5}

AmountFrames(n) ==
    {[columns |-> AllColumns, rows |-> r] : r \in SeqsUpTo(AmountRows, n)}

\* amount_tolerance as configured: the default 0.01, or 0.02
Tolerances == {amount_tolerance, 2 * amount_tolerance}

ConfiguredStrategyArgs ==
    {<<>>, <<"amount_tolerance">>, <<"reference_exact">>, <<"amount_date_exact">>}

InitConfigured ==
    /\ pc = "idle"
    /\ gl_data \in AmountFrames(MaxAmountRows)
    /\ bank_data \in AmountFrames(MaxAmountRows - Len(gl_data.rows))
    /\ match_strategies \in ConfiguredStrategyArgs
    /\ matching_session = NoSession
    /\ performance_stats = <<>>
    /\ gl_prepared = <<>>
    /\ bank_prepared = <<>>
    /\ strategy_pos = 0
    /\ outcome = "none"
    /\ params \in {[amount_tolerance |-> t] : t \in Tolerances}
    /\ FuzzyOff
    /\ ExceptionsOff
    /\ Standalone

SpecConfigured == InitConfigured /\ [][NextExact]_vars

---------------------------------------------------------------------------
(* _prepare_exact_matching_data called on a frame, and called again on the  *)
(* frame it returned (as when the unmatched records of one run are the      *)
(* input of the next).                                                      *)

\* The frame of one call holds at most MaxPrepareRows rows.
MaxPrepareRows == 3

RowF == [date |-> Num(2), amount |-> Num(10005),
         description |-> Text(<<"P", " ", "$", " ", "x">>),
         reference |-> Text(<<" ", "A", "-", "1">>)]

PrepareRows == Rows \cup {RowF}

PrepareFrames(n) ==
    {[columns |-> AllColumns, rows |-> r] : r \in SeqsUpTo(PrepareRows, n)}
    \cup {[columns |-> AllColumns \ {"reference"}, rows |-> r] :
            r \in SeqsUpTo({x \in PrepareRows : x.reference.missing}, n) \ {<<>>}}

PrepareCall ==
    /\ pc = "prepare_call"
    /\ gl_prepared' = _prepare_exact_matching_data(gl_data, "gl")
    /\ pc' = "prepared"
    /\ UNCHANGED <<gl_data, bank_data, match_strategies, matching_session,
                   performance_stats, bank_prepared, strategy_pos, outcome, params>>

\* the returned frame keeps the columns it was given, so it can be given
\* again
PrepareAgain ==
    /\ pc = "prepared"
    /\ gl_prepared' = _prepare_exact_matching_data(
                          [columns |-> gl_data.columns, rows |-> gl_prepared], "gl")
    /\ pc' = "prepared_again"
    /\ UNCHANGED <<gl_data, bank_data, match_strategies, matching_session,
                   performance_stats, bank_prepared, strategy_pos, outcome, params>>

InitPrepare ==
    /\ pc = "prepare_call"
    /\ gl_data \in PrepareFrames(MaxPrepareRows)
    /\ bank_data = <<>>
    /\ match_strategies = <<>>
    /\ matching_session = NoSession
    /\ performance_stats = <<>>
    /\ gl_prepared = <<>>
    /\ bank_prepared = <<>>
    /\ strategy_pos = 0
    /\ outcome = "none"
    /\ params = default_params
    /\ FuzzyOff
    /\ ExceptionsOff
    /\ Standalone

NextPrepare ==
    \/ PrepareCall /\ UNCHANGED <<fuzzyVars, exceptionVars, workflow>>
    \/ PrepareAgain /\ UNCHANGED <<fuzzyVars, exceptionVars, workflow>>

SpecPrepare == InitPrepare /\ [][NextPrepare]_vars

---------------------------------------------------------------------------
(* One engine used for two calls in a row: the second call finds            *)
(* self.matching_session and self.performance_stats as the first left them. *)

\* The two frames of one call on the reused engine hold at most
\* MaxReuseRows rows together.
MaxReuseRows == 3

ReuseRows == {RowA, RowB, RowC}

ReuseFrames(n) ==
    {[columns |-> AllColumns, rows |-> r] : r \in SeqsUpTo(ReuseRows, n)}

ReuseStrategyArgs ==
    {<<>>, <<"reference_exact">>, <<"amount_date_exact">>, <<"amount_tolerance">>}

\* ExactMatchingEngine.get_reconciliation_results: raises without a
\* session, else returns a copy of self.matching_session
get_reconciliation_results(session) ==
    IF session = NoSession
    THEN [raised |-> TRUE, results |-> <<>>]
    ELSE [raised |-> FALSE, results |-> session]

\* the caller calls reconcile_exact_matches again on the same engine, after
\* the first call returned or raised; the locals of the call start anew,
\* the attributes of the engine are what they are
CallAgain ==
    /\ workflow = "first_call"
    /\ pc \in {"done", "failed"}
    /\ \E gl \in ReuseFrames(MaxReuseRows) :
       \E bank \in ReuseFrames(MaxReuseRows - Len(gl.rows)) :
          /\ gl_data' = gl
          /\ bank_data' = bank
    /\ match_strategies' \in ReuseStrategyArgs
    /\ gl_prepared' = <<>>
    /\ bank_prepared' = <<>>
    /\ strategy_pos' = 0
    /\ outcome' = "none"
    /\ pc' = "idle"
    /\ workflow' = "second_call"
    /\ UNCHANGED <<matching_session, performance_stats, params>>
    /\ UNCHANGED <<fuzzyVars, exceptionVars>>

InitReuse ==
    /\ workflow = "first_call"
    /\ pc = "idle"
    /\ gl_data \in ReuseFrames(MaxReuseRows)
    /\ bank_data \in ReuseFrames(MaxReuseRows - Len(gl_data.rows))
    /\ match_strategies \in ReuseStrategyArgs
    /\ matching_session = NoSession
    /\ performance_stats = <<>>
    /\ gl_prepared = <<>>
    /\ bank_prepared = <<>>
    /\ strategy_pos = 0
    /\ outcome = "none"
    /\ params = default_params
    /\ FuzzyOff
    /\ ExceptionsOff

NextReuse == NextExact \/ CallAgain

SpecReuse == InitReuse /\ [][NextReuse]_vars

---------------------------------------------------------------------------
(* Properties of the exact chain *)

ExactMatches == matching_session.exact_matches

\* Positions (1-based) of the input rows whose date or amount is missing or
\* unparseable; row k has original_index k - 1.
Malformed(data) ==
    {k \in DOMAIN data.rows : data.rows[k].date.missing \/ data.rows[k].amount.missing}

\* The input precondition as the documentation states it.
EmptyOrLacksColumn(data) ==
    \/ Len(data.rows) = 0
    \/ \E c \in {"date", "amount", "description"} : c \notin data.columns

KeyStrategyLabels ==
    {"reference_exact", "amount_date_exact", "amount_date_description", "composite_key"}

\* C1: after reconcile_exact_matches completes, no GL original_index and no
\* bank original_index occurs in more than one exact match, and the session's
\* validation reports duplicate_matches = 0 and data_integrity = true.
C1_NoDoubleMatch ==
    pc = "done" =>
        /\ \A k, l \in DOMAIN ExactMatches :
               k # l => /\ ExactMatches[k].gl_index # ExactMatches[l].gl_index
                        /\ ExactMatches[k].bank_index # ExactMatches[l].bank_index
        /\ matching_session.validation_results.duplicate_matches = 0
        /\ matching_session.validation_results.data_integrity

\* C2: after reconcile_exact_matches completes, matches plus unmatched GL
\* records equal the GL input count, likewise for the bank side, hence
\* 2*|matches| + |unmatched_gl| + |unmatched_bank| = |gl_input| + |bank_input|.
C2_Conservation ==
    pc = "done" =>
        /\ Len(ExactMatches) + Len(matching_session.unmatched_gl) = Len(gl_data.rows)
        /\ Len(ExactMatches) + Len(matching_session.unmatched_bank) = Len(bank_data.rows)
        /\ 2 * Len(ExactMatches) + Len(matching_session.unmatched_gl)
             + Len(matching_session.unmatched_bank)
           = Len(gl_data.rows) + Len(bank_data.rows)

\* The key a key-based strategy groups by; reference_exact only groups the
\* records that have a reference.
StrategyKey(strategy, r) ==
    IF strategy = "reference_exact" THEN r.reference_normalized
    ELSE IF strategy = "amount_date_exact" THEN r.amount_date_key
    ELSE IF strategy = "amount_date_desc"
         THEN <<r.amount_date_key, Prefix(r.description_normalized, DescKeyLen)>>
    ELSE r.composite_key

InGroup(strategy, r) == strategy = "reference_exact" => r.reference_normalized # <<>>

GroupOf(strategy, pool, r) ==
    {k \in DOMAIN pool : /\ InGroup(strategy, pool[k])
                         /\ StrategyKey(strategy, pool[k]) = StrategyKey(strategy, r)}

C4_MalformedNeverMatched ==
    pc = "done" =>
        /\ \A k \in DOMAIN ExactMatches :
              /\ (ExactMatches[k].gl_index + 1) \notin Malformed(gl_data)
              /\ (ExactMatches[k].bank_index + 1) \notin Malformed(bank_data)
        /\ \A k \in Malformed(gl_data) :
              \E u \in DOMAIN matching_session.unmatched_gl :
                  matching_session.unmatched_gl[u].original_index = k - 1
        /\ \A k \in Malformed(bank_data) :
              \E u \in DOMAIN matching_session.unmatched_bank :
                  matching_session.unmatched_bank[u].original_index = k - 1

DerivedFields(p) ==
    <<p.date_str, p.amount_rounded, p.description_normalized,
      p.reference_normalized, p.amount_date_key, p.composite_key>>

\* C17: two rows with the same raw fields get the same derived fields, and
\* preparing the prepared frame again leaves the derived fields of every row
\* as they were.
C17_PrepareIdempotent ==
    [][/\ PrepareCall =>
             \A j, k \in DOMAIN gl_data.rows :
                 gl_data.rows[j] = gl_data.rows[k]
                    => DerivedFields(gl_prepared'[j]) = DerivedFields(gl_prepared'[k])
       /\ PrepareAgain =>
             /\ Len(gl_prepared') = Len(gl_prepared)
             /\ \A k \in DOMAIN gl_prepared :
                    DerivedFields(gl_prepared'[k]) = DerivedFields(gl_prepared[k])]_vars

\* a frame prepared twice that has the same raw record in two rows and a
\* description whose normalized form would normalize further
C17_Witness ==
    /\ pc = "prepared_again"
    /\ \E j, k \in DOMAIN gl_data.rows : j # k /\ gl_data.rows[j] = gl_data.rows[k]
    /\ \E k \in DOMAIN gl_prepared :
          _normalize_description(Text(gl_prepared[k].description_normalized))
             # gl_prepared[k].description_normalized

\* the amount_tolerance turn of the strategy loop
ToleranceTurn ==
    /\ ApplyStrategy
    /\ StrategiesOf(match_strategies)[strategy_pos + 1] = "amount_tolerance"
    /\ pc' = "matching"

\* the position in a pool of the record with a given original_index
PoolPosition(pool, idx) == CHOOSE k \in DOMAIN pool : pool[k].original_index = idx

\* equal date_str and |amount difference| <= amount_tolerance
WithinTolerance(g, b) ==
    /\ ~g.amount_numeric.missing /\ ~b.amount_numeric.missing
    /\ Abs(g.amount_numeric.v - b.amount_numeric.v) <= params.amount_tolerance
    /\ ~g.date_str.missing /\ ~b.date_str.missing
    /\ g.date_str.v = b.date_str.v

AmountDelta(g, b) == Abs(g.amount_numeric.v - b.amount_numeric.v)

\* the matches the turn appends to the session
NewMatches ==
    SubSeq(matching_session'.exact_matches,
           Len(matching_session.exact_matches) + 1,
           Len(matching_session'.exact_matches))

\* the pairing of a tolerance turn: every match is within tolerance on equal
\* dates, with the first bank record in input order that is within tolerance
\* and not taken by an earlier match; no record is in two matches
TolerancePairing ==
    /\ \A n \in DOMAIN NewMatches :
          LET gi == PoolPosition(gl_prepared, NewMatches[n].gl_index)
              bj == PoolPosition(bank_prepared, NewMatches[n].bank_index)
          IN /\ WithinTolerance(gl_prepared[gi], bank_prepared[bj])
             /\ \A j \in 1..(bj - 1) :
                   WithinTolerance(gl_prepared[gi], bank_prepared[j])
                      => \E e \in 1..(n - 1) :
                            NewMatches[e].bank_index = bank_prepared[j].original_index
    /\ \A n, e \in DOMAIN NewMatches :
          n # e => /\ NewMatches[n].gl_index # NewMatches[e].gl_index
                   /\ NewMatches[n].bank_index # NewMatches[e].bank_index

\* C18: on the amount_tolerance turn the pairing is first-fit within
\* tolerance, and the confidence of a match is 100 * (1 - delta/tolerance * 0.1)
\* (here in thousandths: 100000 is 100), never below 90.
C18_ToleranceMatches ==
    [][ToleranceTurn =>
          /\ TolerancePairing
          /\ \A n \in DOMAIN NewMatches :
                LET g == gl_prepared[PoolPosition(gl_prepared, NewMatches[n].gl_index)]
                    b == bank_prepared[PoolPosition(bank_prepared, NewMatches[n].bank_index)]
                IN /\ NewMatches[n].confidence * params.amount_tolerance
                         = 100 * (1000 * params.amount_tolerance
                                     - 100 * AmountDelta(g, b))
                   /\ NewMatches[n].confidence >= 90 * 1000]_vars

\* C16: a call with an empty GL set, an empty bank set, or both, returns a
\* result (a session) that holds no match.
C16_EmptyInputReturnsNoMatches ==
    (/\ pc \in {"done", "failed"}
     /\ Len(gl_data.rows) = 0 \/ Len(bank_data.rows) = 0)
        => /\ outcome = "session"
           /\ matching_session.exact_matches = <<>>

\* The loop of lines 120-141 run to its end on given pools: the matches it
\* collects, or raised when a strategy raises.
RECURSIVE RunChain(_, _, _, _, _)
RunChain(strategies, gl, bank, matches, self_params) ==
    IF strategies = <<>> THEN [matches |-> matches, raised |-> FALSE]
    ELSE LET r == _apply_exact_matching_strategy(Head(strategies), gl, bank, self_params)
         IN IF r.raised THEN [matches |-> matches, raised |-> TRUE]
            ELSE RunChain(Tail(strategies), r.gl, r.bank, matches \o r.matches, self_params)

\* C10: for two strategies A and B the run with [A, B] ends with at least as
\* many matches as the run with [A] alone, and holds every match of the [A]
\* run unchanged.
C10_ChainMonotone ==
    (/\ pc \in {"done", "failed"}
     /\ Len(match_strategies) = 2
     /\ ~EmptyOrLacksColumn(gl_data)
     /\ ~EmptyOrLacksColumn(bank_data))
    => LET alone == RunChain(<<match_strategies[1]>>,
                             _prepare_exact_matching_data(gl_data, "gl"),
                             _prepare_exact_matching_data(bank_data, "bank"), <<>>,
                             params)
       IN ~alone.raised =>
            /\ pc = "done"
            /\ Len(ExactMatches) >= Len(alone.matches)
            /\ \A k \in DOMAIN alone.matches : alone.matches[k] \in Range(ExactMatches)

\* The whole call on given frames under given parameters: the loop of lines
\* 120-141 on the prepared frames.
RunEngine(gl, bank, strategies, self_params) ==
    RunChain(StrategiesOf(strategies),
             _prepare_exact_matching_data(gl, "gl"),
             _prepare_exact_matching_data(bank, "bank"), <<>>, self_params)

\* C11: on the same inputs and strategy list, a run with a larger
\* amount_tolerance ends with at least as many matches as the run with a
\* smaller one.
C11_ToleranceMonotone ==
    pc = "done" =>
        \A t \in Tolerances :
            t > params.amount_tolerance =>
                LET larger == RunEngine(gl_data, bank_data, match_strategies,
                                        [params EXCEPT !.amount_tolerance = t])
                IN /\ ~larger.raised
                   /\ Len(larger.matches) >= Len(ExactMatches)

\* The raw amounts of the two records of a match have the same magnitude and
\* opposite signs.
OppositeSigns(m) ==
    LET g == gl_data.rows[m.gl_index + 1].amount
        b == bank_data.rows[m.bank_index + 1].amount
    IN /\ ~g.missing /\ ~b.missing
       /\ g.v # 0
       /\ g.v = 0 - b.v

HasSession == matching_session.state = "session"

---------------------------------------------------------------------------
(* FuzzyMatcher *)

min_confidence == 70
auto_match_threshold == 85
date_tolerance_days == 5
\* self.amount_tolerance = 0.01, a fraction of the larger amount: 1 percent
fuzzy_amount_tolerance_percent == 1
TopCandidates == 3

Algorithms == {"ratio", "partial_ratio", "token_sort_ratio", "token_set_ratio",
               "jaro_winkler"}

\* algorithm_weights, in tenths
algorithm_weights ==
    [a \in Algorithms |->
        IF a = "ratio" THEN 3 ELSE IF a = "jaro_winkler" THEN 1 ELSE 2]

\* thousandths of a point in one point of confidence
Milli == 10 ^ 3

\* calculate_string_similarity: all zero when a description is empty,
\* otherwise what the similarity libraries answer (scores in 0..100).
calculate_string_similarity(str1, str2, library) ==
    IF str1 = <<>> \/ str2 = <<>> THEN [a \in Algorithms |-> 0] ELSE library

RECURSIVE SumOver(_, _)
SumOver(S, f) ==
    IF S = {} THEN 0
    ELSE LET x == CHOOSE y \in S : TRUE IN f[x] + SumOver(S \ {x}, f)

\* calculate_composite_confidence, in thousandths of a point:
\* string_score * 1.2 (amount bonus) * 1.1 (date bonus), capped at 100.
calculate_composite_confidence(similarity_scores, amount_match, date_match) ==
    LET string_score_tenths ==
            SumOver(Algorithms, [a \in Algorithms |->
                                    similarity_scores[a] * algorithm_weights[a]])
        with_amount == string_score_tenths * (IF amount_match THEN 12 ELSE 10)
        with_date   == with_amount * (IF date_match THEN 11 ELSE 10)
    IN Min(with_date, 100 * Milli)

check_amount_match(amount1, amount2) ==
    IF amount1.missing \/ amount2.missing THEN FALSE
    ELSE Abs(amount1.v - amount2.v) * 100
            <= Max(Abs(amount1.v), Abs(amount2.v)) * fuzzy_amount_tolerance_percent

check_date_match(date1, date2) ==
    IF date1.missing \/ date2.missing THEN FALSE
    ELSE Abs(date1.v - date2.v) <= date_tolerance_days

\* lines 221-254: match_info of GL row g and bank row b (positions; the index
\* label of a row is its position less one)
MatchInfo(g, b) ==
    LET amount_match == check_amount_match(fgl_data[g].amount, fbank_data[b].amount)
        date_match   == check_date_match(fgl_data[g].date, fbank_data[b].date)
        scores == calculate_string_similarity(
                      fgl_data[g].description, fbank_data[b].description,
                      library_scores[g][b])
    IN [gl_index     |-> g - 1,
        bank_index   |-> b - 1,
        confidence   |-> calculate_composite_confidence(scores, amount_match, date_match),
        amount_match |-> amount_match,
        date_match   |-> date_match]

\* lines 219-257: the candidates of GL row g, in bank order
Candidates(g) ==
    SelectSeq([b \in DOMAIN fbank_data |-> MatchInfo(g, b)],
              LAMBDA m : m.confidence >= min_confidence * Milli)

\* list.sort(key=confidence, reverse=True): stable, equal confidences keep
\* their order
RECURSIVE InsertDesc(_, _)
InsertDesc(sorted, m) ==
    IF sorted = <<>> THEN <<m>>
    ELSE IF Head(sorted).confidence >= m.confidence
         THEN <<Head(sorted)>> \o InsertDesc(Tail(sorted), m)
         ELSE <<m>> \o sorted

RECURSIVE SortDesc(_)
SortDesc(seq) ==
    IF seq = <<>> THEN <<>>
    ELSE InsertDesc(SortDesc(SubSeq(seq, 1, Len(seq) - 1)), seq[Len(seq)])

\* lines 198-212
FindStart ==
    /\ fpc = "idle"
    /\ fuzzy_matches' = <<>>
    /\ potential_matches' = <<>>
    /\ gl_pos' = 0
    /\ fpc' = "scanning"
    /\ UNCHANGED <<fgl_data, fbank_data, library_scores, funmatched>>

\* The outer loop accepting every candidate it keeps as a match.
ProcessGlRowAcceptAll ==
    /\ fpc = "scanning"
    /\ gl_pos < Len(fgl_data)
    /\ fuzzy_matches' = fuzzy_matches \o
            Prefix(SortDesc(Candidates(gl_pos + 1)), TopCandidates)
    /\ potential_matches' = potential_matches
    /\ gl_pos' = gl_pos + 1
    /\ UNCHANGED <<fpc, fgl_data, fbank_data, library_scores, funmatched>>

\* one turn of the outer loop, lines 215-269
ProcessGlRow ==
    /\ fpc = "scanning"
    /\ gl_pos < Len(fgl_data)
    /\ LET best_matches == SortDesc(Candidates(gl_pos + 1))
           top          == Prefix(best_matches, TopCandidates)
       IN /\ fuzzy_matches' = fuzzy_matches \o
                SelectSeq(top, LAMBDA m : m.confidence >= auto_match_threshold * Milli)
          /\ potential_matches' = potential_matches \o
                SelectSeq(top, LAMBDA m : /\ m.confidence < auto_match_threshold * Milli
                                          /\ m.confidence >= min_confidence * Milli)
    /\ gl_pos' = gl_pos + 1
    /\ UNCHANGED <<fpc, fgl_data, fbank_data, library_scores, funmatched>>

\* lines 271-290
FindReturn ==
    /\ fpc = "scanning"
    /\ gl_pos = Len(fgl_data)
    /\ fpc' = "found"
    /\ UNCHANGED <<fgl_data, fbank_data, library_scores, fuzzy_matches,
                   potential_matches, gl_pos, funmatched>>

\* An answer that also leaves out the records of potential_matches.
UnmatchedWithoutPotential ==
    LET matched_gl_indices ==
            {fuzzy_matches[k].gl_index : k \in DOMAIN fuzzy_matches}
               \cup {potential_matches[k].gl_index : k \in DOMAIN potential_matches}
        matched_bank_indices ==
            {fuzzy_matches[k].bank_index : k \in DOMAIN fuzzy_matches}
               \cup {potential_matches[k].bank_index : k \in DOMAIN potential_matches}
    IN [gl   |-> SelectSeq([k \in DOMAIN fgl_data |-> k - 1],
                           LAMBDA i : i \notin matched_gl_indices),
        bank |-> SelectSeq([k \in DOMAIN fbank_data |-> k - 1],
                           LAMBDA i : i \notin matched_bank_indices)]

\* get_unmatched_records on the two frames just matched: the index labels of
\* the rows it keeps
get_unmatched_records ==
    LET matched_gl_indices   == {fuzzy_matches[k].gl_index : k \in DOMAIN fuzzy_matches}
        matched_bank_indices == {fuzzy_matches[k].bank_index : k \in DOMAIN fuzzy_matches}
    IN [gl   |-> SelectSeq([k \in DOMAIN fgl_data |-> k - 1],
                           LAMBDA i : i \notin matched_gl_indices),
        bank |-> SelectSeq([k \in DOMAIN fbank_data |-> k - 1],
                           LAMBDA i : i \notin matched_bank_indices)]

GetUnmatched ==
    /\ fpc = "found"
    /\ funmatched' = get_unmatched_records
    /\ fpc' = "reported"
    /\ UNCHANGED <<fgl_data, fbank_data, library_scores, fuzzy_matches,
                   potential_matches, gl_pos>>

---------------------------------------------------------------------------
(* Inputs of the fuzzy matcher *)

\* The two frames of one call hold at most MaxFuzzyRows rows together.
MaxFuzzyRows == 3

Described == <<"x">>

FRow1 == [description |-> Described, amount |-> Num(10000), date |-> Num(1)]
FRow2 == [description |-> Described, amount |-> Num(10200), date |-> Num(3)]
FRow3 == [description |-> Described, amount |-> Num(10000), date |-> NaT]
FRow4 == [description |-> Described, amount |-> NaN, date |-> Num(9)]
FRow5 == [description |-> <<>>, amount |-> Num(10000), date |-> Num(1)]

FuzzyRows == {FRow1, FRow2, FRow3, FRow4, FRow5}

\* What the libraries may answer for a pair of non-empty descriptions:
\* identical texts, close texts, loosely related texts.
Uniform(n) == [a \in Algorithms |-> n]

LibraryAnswers ==
    {Uniform(100),
     [a \in Algorithms |-> IF a \in {"ratio", "token_sort_ratio"} THEN 80
                           ELSE IF a = "partial_ratio" THEN 85
                           ELSE IF a = "token_set_ratio" THEN 95 ELSE 90],
     Uniform(70)}

InitFuzzy ==
    /\ fpc = "idle"
    /\ fgl_data \in SeqsUpTo(FuzzyRows, MaxFuzzyRows)
    /\ fbank_data \in SeqsUpTo(FuzzyRows, MaxFuzzyRows - Len(fgl_data))
    /\ library_scores \in [DOMAIN fgl_data -> [DOMAIN fbank_data -> LibraryAnswers]]
    /\ fuzzy_matches = <<>>
    /\ potential_matches = <<>>
    /\ gl_pos = 0
    /\ funmatched = <<>>
    /\ ExactOff
    /\ ExceptionsOff
    /\ Standalone

NextFuzzy ==
    \/ FindStart /\ UNCHANGED <<exactVars, exceptionVars, workflow>>
    \/ ProcessGlRow /\ UNCHANGED <<exactVars, exceptionVars, workflow>>
    \/ FindReturn /\ UNCHANGED <<exactVars, exceptionVars, workflow>>
    \/ GetUnmatched /\ UNCHANGED <<exactVars, exceptionVars, workflow>>

SpecFuzzy == InitFuzzy /\ [][NextFuzzy]_vars

---------------------------------------------------------------------------
(* ExceptionHandler (src/src/modules/exception_handler.py) *)

\* thousandths in one unit of currency
PerUnit == 10 ^ 3

\* the keys of self.exception_categories, in the order the dictionary
\* literal of _initialize_categories lists them
CategoryOrder ==
    <<"timing_differences", "amount_differences", "missing_transactions",
      "duplicate_transactions", "system_specific", "data_quality_issues",
      "unknown">>

\* self.exception_categories: patterns, resolution_priority, auto_resolvable
exception_categories ==
    [timing_differences |->
         [patterns |->
              {<<"p", "e", "n", "d", "i", "n", "g">>,
               <<"p", "r", "o", "c", "e", "s", "s", "i", "n", "g">>,
               <<"c", "l", "e", "a", "r", "i", "n", "g">>},
          resolution_priority |-> "low",
          auto_resolvable |-> TRUE],
     amount_differences |->
         [patterns |->
              {<<"f", "e", "e">>,
               <<"c", "h", "a", "r", "g", "e">>,
               <<"a", "d", "j", "u", "s", "t", "m", "e", "n", "t">>,
               <<"c", "o", "r", "r", "e", "c", "t", "i", "o", "n">>},
          resolution_priority |-> "high",
          auto_resolvable |-> FALSE],
     missing_transactions |->
         [patterns |->
              {<<"t", "r", "a", "n", "s", "f", "e", "r">>,
               <<"i", "n", "t", "e", "r", "n", "a", "l">>,
               <<"j", "o", "u", "r", "n", "a", "l">>},
          resolution_priority |-> "medium",
          auto_resolvable |-> FALSE],
     duplicate_transactions |->
         [patterns |->
              {<<"d", "u", "p", "l", "i", "c", "a", "t", "e">>,
               <<"r", "e", "v", "e", "r", "s", "a", "l">>,
               <<"v", "o", "i", "d">>},
          resolution_priority |-> "medium",
          auto_resolvable |-> TRUE],
     system_specific |->
         [patterns |->
              {<<"a", "c", "c", "r", "u", "a", "l">>,
               <<"p", "r", "o", "v", "i", "s", "i", "o", "n">>,
               <<"a", "l", "l", "o", "c", "a", "t", "i", "o", "n">>},
          resolution_priority |-> "low",
          auto_resolvable |-> TRUE],
     data_quality_issues |->
         [patterns |->
              {<<"i", "n", "v", "a", "l", "i", "d">>,
               <<"e", "r", "r", "o", "r">>,
               <<"m", "i", "s", "s", "i", "n", "g">>},
          resolution_priority |-> "high",
          auto_resolvable |-> FALSE],
     unknown |->
         [patterns |->
              {},
          resolution_priority |-> "medium",
          auto_resolvable |-> FALSE]]

\* re.search(pattern, description) for a pattern of plain letters: the
\* pattern occurs somewhere in the description
Contains(text, pattern) ==
    \E i \in 1..(Len(text) - Len(pattern) + 1) :
        SubSeq(text, i, i + Len(pattern) - 1) = pattern

\* str(record.get('description', '')): a missing description of a frame is
\* NaN, whose string is "nan"
Str(cell) == IF cell.missing THEN <<"n", "a", "n">> ELSE cell.s

\* record.get('original_index', record.name)
RecordIndex(record) ==
    IF record.original_index.missing THEN record.name
    ELSE record.original_index.v

\* lines 295-303: the first category, in dictionary order, one of whose
\* patterns occurs in the description; "" when the loop ends without return
RECURSIVE PatternCategory(_, _)
PatternCategory(description, c) ==
    IF c > Len(CategoryOrder) THEN ""
    ELSE IF /\ CategoryOrder[c] # "unknown"
            /\ \E pattern \in exception_categories[CategoryOrder[c]].patterns :
                  Contains(description, pattern)
         THEN CategoryOrder[c]
         ELSE PatternCategory(description, c + 1)

\* lines 305-315: the rules on the amount (comparisons with NaN are False)
AmountCategory(amount) ==
    IF ~amount.missing /\ Abs(amount.v) < 10 * PerUnit
    THEN "amount_differences"
    ELSE IF /\ ~amount.missing
            /\ amount.v % (100 * PerUnit) = 0
            /\ Abs(amount.v) > 1000 * PerUnit
         THEN "system_specific"
         ELSE "unknown"

\* The classification with the rules on the amount tried before the patterns.
ClassifyAmountFirst(record) ==
    IF AmountCategory(record.amount) # "unknown"
    THEN AmountCategory(record.amount)
    ELSE LET by_pattern == PatternCategory(Lower(Str(record.description)), 1)
         IN IF by_pattern # "" THEN by_pattern ELSE "unknown"

_classify_record(record) ==
    LET description == Lower(Str(record.description))
        by_pattern  == PatternCategory(description, 1)
    IN IF by_pattern # "" THEN by_pattern ELSE AmountCategory(record.amount)

\* _calculate_category_confidence, in tenths
_calculate_category_confidence(record, category) ==
    IF category = "unknown" THEN 5
    ELSE LET description == Lower(Str(record.description))
             pattern_matches ==
                 Cardinality({pattern \in exception_categories[category].patterns :
                                 Contains(description, pattern)})
         IN IF pattern_matches > 0 THEN Min(9, 6 + pattern_matches) ELSE 6

\* lines 272-283: the exception record of one row (the fields kept here)
ExceptionRecord(record, data_type) ==
    LET category == _classify_record(record)
    IN [original_index      |-> RecordIndex(record),
        date                |-> record.date,
        amount              |-> record.amount,
        description         |-> record.description,
        category            |-> category,
        category_confidence |-> _calculate_category_confidence(record, category),
        data_type           |-> data_type]

\* A categorization that lists only the records it recognizes: the list of
\* unknown stays empty.
CategorizeRecognizedOnly(df, data_type) ==
    [category \in Range(CategoryOrder) |->
        SelectSeq([k \in DOMAIN df |-> ExceptionRecord(df[k], data_type)],
                  LAMBDA e : e.category = category /\ category # "unknown")]

\* _categorize_exceptions: one list for each category, rows in frame order
_categorize_exceptions(df, data_type) ==
    [category \in Range(CategoryOrder) |->
        SelectSeq([k \in DOMAIN df |-> ExceptionRecord(df[k], data_type)],
                  LAMBDA e : e.category = category)]

\* normalize_text (src/src/utils/helpers.py): collapse white space, lower
\* case, drop every character outside letters, digits, space, "-" and ".",
\* strip
SpecialChars == {"$", "#", ",", "!"}

normalize_text(text) ==
    Strip(RemoveChars(Lower(JoinSplit(text, <<>>, FALSE)), SpecialChars))

\* str.split(): the words of a text
RECURSIVE Split(_, _, _)
Split(s, words, word) ==
    IF s = <<>> THEN (IF word = <<>> THEN words ELSE Append(words, word))
    ELSE IF IsSpace(Head(s))
         THEN Split(Tail(s), IF word = <<>> THEN words ELSE Append(words, word), <<>>)
         ELSE Split(Tail(s), words, Append(word, Head(s)))

KeyWordCount == 3
MinGroupSize == 3
MaxBulkSuggestions == 3
MaxNearMatches == 5

\* lines 566-571: ' '.join(desc.split()[:3]), kept as the sequence of words;
\* <<>> when the normalized description is empty (the record joins no group)
KeyWords(record) ==
    Prefix(Split(normalize_text(Str(record.description)), <<>>, <<>>), KeyWordCount)

\* the keys of description_groups, in the order they were first inserted
RECURSIVE GroupKeys(_, _)
GroupKeys(records, keys) ==
    IF records = <<>> THEN keys
    ELSE LET key == KeyWords(Head(records))
         IN GroupKeys(Tail(records),
                      IF key = <<>> \/ key \in Range(keys) THEN keys
                      ELSE Append(keys, key))

\* lines 563-586: the groups of all_records and a suggestion for each group
\* of MinGroupSize records or more, cut to the first MaxBulkSuggestions
BulkSuggestions(all_records) ==
    LET keys   == GroupKeys(all_records, <<>>)
        groups == [k \in DOMAIN keys |->
                     [type         |-> "bulk_resolution_opportunity",
                      pattern      |-> keys[k],
                      record_count |->
                          Len(SelectSeq(all_records,
                                        LAMBDA r : KeyWords(r) = keys[k]))]]
    IN Prefix(SelectSeq(groups, LAMBDA g : g.record_count >= MinGroupSize),
              MaxBulkSuggestions)

\* lines 555-561: all_records.append(record) follows the inner loop, so it
\* collects the last record of each frame that has rows
CollectedRecords(df1, df2) ==
    (IF df1 # <<>> THEN <<df1[Len(df1)]>> ELSE <<>>)
       \o (IF df2 # <<>> THEN <<df2[Len(df2)]>> ELSE <<>>)

_suggest_bulk_resolutions(df1, df2) ==
    BulkSuggestions(CollectedRecords(df1, df2))

\* 0.01, in thousandths
NearAmountDifference == 10

\* lines 508-546: is the pair of record1 and record2 a near match
NearMatch(record1, record2) ==
    /\ ~record1.amount.missing /\ ~record2.amount.missing
    /\ Abs(record1.amount.v - record2.amount.v) <= NearAmountDifference
    /\ ~record1.date.missing /\ ~record2.date.missing
    /\ 3 <= Abs(record1.date.v - record2.date.v)
    /\ Abs(record1.date.v - record2.date.v) <= 10

\* The pairs of a double loop with df2 outside and df1 inside.
RECURSIVE LoopPairsInnerFirst(_, _, _, _)
LoopPairsInnerFirst(df1, df2, i, j) ==
    IF j > Len(df2) THEN <<>>
    ELSE IF i > Len(df1) THEN LoopPairsInnerFirst(df1, df2, 1, j + 1)
    ELSE <<<<i, j>>>> \o LoopPairsInnerFirst(df1, df2, i + 1, j)

\* the pairs of the double loop: df1 outer, df2 inner
RECURSIVE LoopPairs(_, _, _, _)
LoopPairs(df1, df2, i, j) ==
    IF i > Len(df1) THEN <<>>
    ELSE IF j > Len(df2) THEN LoopPairs(df1, df2, i + 1, 1)
    ELSE <<<<i, j>>>> \o LoopPairs(df1, df2, i, j + 1)

_suggest_near_matches(df1, df2, df1_type, df2_type) ==
    LET near == SelectSeq(LoopPairs(df1, df2, 1, 1),
                          LAMBDA p : NearMatch(df1[p[1]], df2[p[2]]))
    IN Prefix([k \in DOMAIN near |->
                 [type    |-> "near_match_opportunity",
                  records |-> <<[source |-> df1_type,
                                 index  |-> RecordIndex(df1[near[k][1]])],
                                [source |-> df2_type,
                                 index  |-> RecordIndex(df2[near[k][2]])]>>,
                  day_diff |-> Abs(df1[near[k][1]].date.v - df2[near[k][2]].date.v)]],
              MaxNearMatches)

HighVolume == 100
OldAge == 30
ManyOldRecords == 10

\* lines 607-618: records with a date older than OldAge days
OldRecords(df, now) ==
    Len(SelectSeq(df, LAMBDA r : ~r.date.missing /\ now - r.date.v > OldAge))

_suggest_process_improvements(df1, df2, now) ==
    (IF Len(df1) + Len(df2) > HighVolume
     THEN <<[type |-> "process_improvement",
             suggested_action |-> "process_analysis"]>>
     ELSE <<>>)
    \o (IF OldRecords(df1, now) + OldRecords(df2, now) > ManyOldRecords
        THEN <<[type |-> "process_improvement",
                suggested_action |-> "aging_policy_review"]>>
        ELSE <<>>)

_generate_resolution_suggestions(df1, df2, df1_type, df2_type, now) ==
    _suggest_near_matches(df1, df2, df1_type, df2_type)
       \o _suggest_bulk_resolutions(df1, df2)
       \o _suggest_process_improvements(df1, df2, now)

\* the keys of age_buckets (lines 471-475)
AgeBucketNames ==
    {"0-7_days", "8-30_days", "31-90_days", "91-365_days", "over_365_days"}

\* lines 456-460: record.get('date') is true of a date and of NaT alike;
\* the age is (current_date - transaction_date).days, and NaN for NaT
AgeDays(record, now) ==
    IF record.date.missing THEN NaN ELSE Num(now - record.date.v)

\* Buckets whose second range starts a day late.
AgeBucketsWithGap(ages) ==
    LET Count(lo, hi) ==
            Len(SelectSeq(ages, LAMBDA age : ~age.missing /\ lo <= age.v /\ age.v <= hi))
        Upto(hi) == Len(SelectSeq(ages, LAMBDA age : ~age.missing /\ age.v <= hi))
        Over(lo) == Len(SelectSeq(ages, LAMBDA age : ~age.missing /\ age.v > lo))
    IN [b \in AgeBucketNames |->
           IF b = "0-7_days" THEN Upto(7)
           ELSE IF b = "8-30_days" THEN Count(9, 30)
           ELSE IF b = "31-90_days" THEN Count(31, 90)
           ELSE IF b = "91-365_days" THEN Count(91, 365)
           ELSE Over(365)]

\* lines 470-476: the five counts over the list of ages (a comparison with
\* NaN is false)
AgeBuckets(ages) ==
    LET Count(lo, hi) ==
            Len(SelectSeq(ages, LAMBDA age : ~age.missing /\ lo <= age.v /\ age.v <= hi))
        Upto(hi) == Len(SelectSeq(ages, LAMBDA age : ~age.missing /\ age.v <= hi))
        Over(lo) == Len(SelectSeq(ages, LAMBDA age : ~age.missing /\ age.v > lo))
    IN [b \in AgeBucketNames |->
           IF b = "0-7_days" THEN Upto(7)
           ELSE IF b = "8-30_days" THEN Count(8, 30)
           ELSE IF b = "31-90_days" THEN Count(31, 90)
           ELSE IF b = "91-365_days" THEN Count(91, 365)
           ELSE Over(365)]

\* _analyze_aging: a side without rows keeps the empty dictionary <<>>
_analyze_aging(df1, df2, now) ==
    LET Aging(df) ==
            IF df = <<>> THEN <<>>
            ELSE [age_buckets |-> AgeBuckets([k \in DOMAIN df |-> AgeDays(df[k], now)])]
    IN [df1_aging |-> Aging(df1), df2_aging |-> Aging(df2)]

\* the number of records of a category over the sides that were categorized
CategoryCount(categorized, category) ==
    (IF categorized.gl = <<>> THEN 0 ELSE Len(categorized.gl[category]))
       + (IF categorized.bank = <<>> THEN 0 ELSE Len(categorized.bank[category]))

RECURSIVE SumCounts(_, _, _)
SumCounts(categorized, c, auto_only) ==
    IF c > Len(CategoryOrder) THEN 0
    ELSE (IF auto_only /\ ~exception_categories[CategoryOrder[c]].auto_resolvable
          THEN 0 ELSE CategoryCount(categorized, CategoryOrder[c]))
         + SumCounts(categorized, c + 1, auto_only)

\* _calculate_exception_statistics
_calculate_exception_statistics(df1, df2, categorized) ==
    LET total_exceptions == Len(df1) + Len(df2)
        auto_resolvable  == SumCounts(categorized, 1, TRUE)
    IN [total_exceptions      |-> total_exceptions,
        category_distribution |->
            [category \in (IF categorized.gl = <<>> /\ categorized.bank = <<>>
                           THEN {} ELSE Range(CategoryOrder)) |->
                CategoryCount(categorized, category)],
        auto_resolvable_count |-> auto_resolvable,
        manual_review_count   |-> total_exceptions - auto_resolvable]

\* process_exceptions, lines 59-147; a side without rows keeps the empty
\* dictionary <<>>
process_exceptions(df1, df2, df1_type, df2_type, now) ==
    LET categorized ==
            [gl   |-> IF df1 # <<>> THEN _categorize_exceptions(df1, df1_type)
                      ELSE <<>>,
             bank |-> IF df2 # <<>> THEN _categorize_exceptions(df2, df2_type)
                      ELSE <<>>]
    IN [categorized_exceptions |-> categorized,
        aging_analysis |-> _analyze_aging(df1, df2, now),
        resolution_suggestions |->
            _generate_resolution_suggestions(df1, df2, df1_type, df2_type, now),
        statistics |-> _calculate_exception_statistics(df1, df2, categorized)]

\* record['source'] = source, for every record of a list (lines 379-380,
\* 385-386 and 559-560)
TagSource(records, source) ==
    [k \in DOMAIN records |->
        [f \in DOMAIN records[k] \cup {"source"} |->
            IF f = "source" THEN source ELSE records[k][f]]]

\* The tags written into the rows of the frame itself.
FrameTaggedInPlace(df, source) == TagSource(df, source)

\* What the caller's frame (or list of dictionaries) holds after the call.
\* The handler reads the frame with iterrows and get; the only writes are
\* the tags, and they go into the dictionaries df.to_dict('records') has
\* just built, not into the frame (a list argument is first copied into a
\* frame of its own, lines 81-82 and 86-87).
FrameAfterCall(df, source) ==
    LET df_dict == TagSource(df, source)
    IN df

\* The call of process_exceptions.  The frames stand for both forms of the
\* argument: a list of dictionaries becomes a frame with the same rows and
\* the labels 0, 1, 2, ...
ProcessExceptions ==
    /\ xpc = "idle"
    /\ exception_results' =
          process_exceptions(unmatched_df1, unmatched_df2, "gl", "bank", current_date)
    /\ unmatched_df1' = FrameAfterCall(unmatched_df1, "df1")
    /\ unmatched_df2' = FrameAfterCall(unmatched_df2, "df2")
    /\ xpc' = "returned"
    /\ UNCHANGED current_date

---------------------------------------------------------------------------
(* Inputs of the exception handler *)

\* The two frames of one call hold at most MaxExceptionRows rows together.
MaxExceptionRows == 3

XRow1 == [date |-> Num(1), amount |-> Num(5 * PerUnit),
          description |-> Text(<<"P", "e", "n", "d", "i", "n", "g", " ", "f", "e", "e">>)]
XRow2 == [date |-> Num(5), amount |-> Num(2000 * PerUnit),
          description |-> Text(<<"c", "o", "f", "f", "e", "e">>)]
XRow3 == [date |-> Num(1), amount |-> Num(5 * PerUnit),
          description |-> Text(<<"x", " ", "#", "1">>)]
XRow4 == [date |-> Num(5), amount |-> Num(0 - 2000 * PerUnit),
          description |-> Text(<<"X">>)]
XRow5 == [date |-> Num(9), amount |-> Num(1000 * PerUnit),
          description |-> Text(<<"x">>)]
XRow6 == [date |-> NaT, amount |-> NaN, description |-> None]
XRow7 == [date |-> Num(1), amount |-> Num(10 * PerUnit),
          description |-> Text(<<"F", "E", "E", " ", "v", "o", "i", "d">>)]
XRow8 == [date |-> Num(9), amount |-> Num(0 - 5 * PerUnit),
          description |-> Text(<<"v", "o", "i", "d">>)]
XRow9 == [date |-> Num(5), amount |-> Num(10 * PerUnit),
          description |-> Text(<<"x">>)]

ExceptionRows == {XRow1, XRow2, XRow3, XRow4, XRow5, XRow6, XRow7, XRow8, XRow9}

\* A frame read from a file: the index labels are 0, 1, 2, ... and there is
\* no original_index column.
Labelled(rows) ==
    [k \in DOMAIN rows |->
        [name           |-> k - 1,
         original_index |-> Missing,
         date           |-> rows[k].date,
         amount         |-> rows[k].amount,
         description    |-> rows[k].description]]

ExceptionFrames(n) == {Labelled(rows) : rows \in SeqsUpTo(ExceptionRows, n)}

\* datetime.now(): a few days, or more than a year, after the records
CurrentDates == {12, 400}

InitExceptions ==
    /\ xpc = "idle"
    /\ unmatched_df1 \in ExceptionFrames(MaxExceptionRows)
    /\ unmatched_df2 \in ExceptionFrames(MaxExceptionRows - Len(unmatched_df1))
    /\ current_date \in CurrentDates
    /\ exception_results = <<>>
    /\ ExactOff
    /\ FuzzyOff
    /\ Standalone

NextExceptions ==
    ProcessExceptions /\ UNCHANGED <<exactVars, fuzzyVars, workflow>>

SpecExceptions == InitExceptions /\ [][NextExceptions]_vars

---------------------------------------------------------------------------
(* Inputs with many near matches: records whose amounts are a cent apart    *)
(* and whose dates are some days apart.                                     *)

\* The two frames of one such call hold at most MaxNearRows rows together.
MaxNearRows == 6

NRow1 == [date |-> Num(1), amount |-> Num(5 * PerUnit),
          description |-> Text(<<"x">>)]
NRow2 == [date |-> Num(5), amount |-> Num(5 * PerUnit + NearAmountDifference),
          description |-> Text(<<"x">>)]
NRow3 == [date |-> Num(13), amount |-> Num(5 * PerUnit + 2 * NearAmountDifference),
          description |-> Text(<<"F", "e", "e">>)]

NearRows == {NRow1, NRow2, NRow3}

NearFrames(n) == {Labelled(rows) : rows \in SeqsUpTo(NearRows, n)}

InitNearMatches ==
    /\ xpc = "idle"
    /\ unmatched_df1 \in NearFrames(MaxNearRows)
    /\ unmatched_df2 \in NearFrames(MaxNearRows - Len(unmatched_df1))
    /\ current_date \in CurrentDates
    /\ exception_results = <<>>
    /\ ExactOff
    /\ FuzzyOff
    /\ Standalone

SpecNearMatches == InitNearMatches /\ [][NextExceptions]_vars

---------------------------------------------------------------------------
(* Inputs of every age: records dated on both sides of each bucket limit,   *)
(* a record dated after the day of the call, a record without a date.       *)

\* The two frames of one such call hold at most MaxAgingRows rows together.
MaxAgingRows == 3

\* the day of the call
AgingDate == 400

\* the ages of the dated records
AgingAges == {0 - 5, 7, 8, 30, 31, 90, 91, 365, 366}

Aged(age) == [date |-> Num(AgingDate - age), amount |-> Num(50 * PerUnit),
              description |-> Text(<<"x">>)]

Undated == [date |-> NaT, amount |-> Num(50 * PerUnit),
            description |-> Text(<<"x">>)]

AgingRows == {Aged(age) : age \in AgingAges} \cup {Undated}

AgingFrames(n) == {Labelled(rows) : rows \in SeqsUpTo(AgingRows, n)}

InitAging ==
    /\ xpc = "idle"
    /\ unmatched_df1 \in AgingFrames(MaxAgingRows)
    /\ unmatched_df2 \in AgingFrames(MaxAgingRows - Len(unmatched_df1))
    /\ current_date = AgingDate
    /\ exception_results = <<>>
    /\ ExactOff
    /\ FuzzyOff
    /\ Standalone

SpecAging == InitAging /\ [][NextExceptions]_vars

---------------------------------------------------------------------------
(* Inputs for the category lists: a record for each way to a category (a     *)
(* pattern of an auto_resolvable category, a pattern of a category for       *)
(* manual review, the amount rule, no rule at all, every field missing).     *)

\* The two frames of one such call hold at most MaxCategoryRows rows together.
MaxCategoryRows == 4

CategoryRows == {XRow1, XRow2, XRow4, XRow5, XRow6}

InitCategories ==
    /\ xpc = "idle"
    /\ unmatched_df1 \in {Labelled(rows) : rows \in SeqsUpTo(CategoryRows, MaxCategoryRows)}
    /\ unmatched_df2 \in
          {Labelled(rows) :
              rows \in SeqsUpTo(CategoryRows, MaxCategoryRows - Len(unmatched_df1))}
    /\ current_date = AgingDate
    /\ exception_results = <<>>
    /\ ExactOff
    /\ FuzzyOff
    /\ Standalone

SpecCategories == InitCategories /\ [][NextExceptions]_vars

---------------------------------------------------------------------------
(* The workflow of tests/validate_final.py (lines 149-170) and of           *)
(* tests/integration/test_workflow_integration.py (lines 132-188): exact    *)
(* chain, fuzzy matcher on what the chain left, exception handler on what   *)
(* the matcher left.                                                        *)

\* ExactMatchingEngine.get_unmatched_records: the two unmatched lists as
\* frames (a new RangeIndex, original_index is a column)
engine_get_unmatched_records(session) ==
    IF session = NoSession THEN [gl |-> <<>>, bank |-> <<>>]
    ELSE [gl |-> session.unmatched_gl, bank |-> session.unmatched_bank]

\* What find_fuzzy_matches reads of a row of these frames under the default
\* column mapping: 'description'; the amount columns 'debit' / 'deposit' are
\* absent, so the amount is the default 0; the GL date column
\* 'transaction_date' is absent (None), the bank date column 'date' exists.
FuzzyView(unmatched, data, data_type) ==
    [k \in DOMAIN unmatched |->
        LET raw == data.rows[unmatched[k].original_index + 1]
        IN [description    |-> Str(raw.description),
            amount         |-> Num(0),
            date           |-> IF data_type = "gl" THEN NaT ELSE raw.date,
            original_index |-> unmatched[k].original_index,
            record         |-> raw]]

\* the rows FuzzyMatcher.get_unmatched_records keeps, with their index labels
ExceptionView(kept, frame) ==
    [k \in DOMAIN kept |->
        [name           |-> kept[k],
         original_index |-> Num(frame[kept[k] + 1].original_index),
         date           |-> frame[kept[k] + 1].record.date,
         amount         |-> frame[kept[k] + 1].record.amount,
         description    |-> frame[kept[k] + 1].record.description]]

\* What the libraries may answer in a workflow run: identical texts, loosely
\* related texts, unrelated texts.
WorkflowAnswers == {Uniform(100), Uniform(70), Uniform(50)}

\* the day the workflow runs
WorkflowDate == 12

\* unmatched = exact_engine.get_unmatched_records(), then the call of
\* fuzzy_engine.find_fuzzy_matches(unmatched['gl'], unmatched['bank'])
ExactToFuzzy ==
    /\ workflow = "exact"
    /\ pc = "done"
    /\ fpc = "off"
    /\ LET unmatched == engine_get_unmatched_records(matching_session)
           gl        == FuzzyView(unmatched.gl, gl_data, "gl")
           bank      == FuzzyView(unmatched.bank, bank_data, "bank")
       IN /\ fgl_data' = gl
          /\ fbank_data' = bank
          /\ library_scores' \in [DOMAIN gl -> [DOMAIN bank -> WorkflowAnswers]]
    /\ fpc' = "idle"
    /\ workflow' = "fuzzy"
    /\ UNCHANGED <<fuzzy_matches, potential_matches, gl_pos, funmatched>>
    /\ UNCHANGED <<exactVars, exceptionVars>>

\* MatchingEngineError leaves reconcile_exact_matches: the workflow ends
ExactRaises ==
    /\ workflow = "exact"
    /\ pc = "failed"
    /\ workflow' = "failed"
    /\ UNCHANGED <<exactVars, fuzzyVars, exceptionVars>>

\* the call of exception_handler.process_exceptions on the frames
\* fuzzy_engine.get_unmatched_records returned
FuzzyToExceptions ==
    /\ workflow = "fuzzy"
    /\ fpc = "reported"
    /\ xpc = "off"
    /\ unmatched_df1' = ExceptionView(funmatched.gl, fgl_data)
    /\ unmatched_df2' = ExceptionView(funmatched.bank, fbank_data)
    /\ current_date' = WorkflowDate
    /\ xpc' = "idle"
    /\ workflow' = "exceptions"
    /\ UNCHANGED exception_results
    /\ UNCHANGED <<exactVars, fuzzyVars>>

\* The two frames of one workflow run hold at most MaxWorkflowRows rows.
MaxWorkflowRows == 4

WRow1 == [date |-> Num(1), amount |-> Num(10000),
          description |-> Text(<<"P", "a", "y">>),
          reference |-> Text(<<"A", "1">>)]
WRow2 == [date |-> Num(1), amount |-> Num(10010),
          description |-> Text(<<"F", "e", "e">>),
          reference |-> None]
WRow3 == [date |-> Num(3), amount |-> Num(25000),
          description |-> Text(<<"P", "a", "y", " ", "x">>),
          reference |-> None]
WRow4 == [date |-> NaT, amount |-> Num(10000),
          description |-> Text(<<"P", "a", "y">>),
          reference |-> None]

WorkflowRows == {WRow1, WRow2, WRow3, WRow4}

WorkflowFrames(n) ==
    {[columns |-> AllColumns, rows |-> r] : r \in SeqsUpTo(WorkflowRows, n)}

InitWorkflow ==
    /\ workflow = "exact"
    /\ pc = "idle"
    /\ gl_data \in WorkflowFrames(MaxWorkflowRows)
    /\ bank_data \in WorkflowFrames(MaxWorkflowRows - Len(gl_data.rows))
    /\ match_strategies = <<>>
    /\ matching_session = NoSession
    /\ performance_stats = <<>>
    /\ gl_prepared = <<>>
    /\ bank_prepared = <<>>
    /\ strategy_pos = 0
    /\ outcome = "none"
    /\ params = default_params
    /\ FuzzyOff
    /\ ExceptionsOff

NextWorkflow ==
    \/ NextExact
    \/ ExactRaises
    \/ ExactToFuzzy
    \/ NextFuzzy
    \/ FuzzyToExceptions
    \/ NextExceptions

SpecWorkflow == InitWorkflow /\ [][NextWorkflow]_vars

---------------------------------------------------------------------------
(* The engines together *)

Init ==
    \/ InitExact \/ InitConfigured \/ InitPrepare
    \/ InitFuzzy \/ InitExceptions \/ InitNearMatches \/ InitAging
    \/ InitCategories
    \/ InitWorkflow \/ InitReuse

Next == NextWorkflow \/ NextPrepare \/ CallAgain

Spec == Init /\ [][Next]_vars

---------------------------------------------------------------------------
(* Properties of the fuzzy matcher and of both engines *)

FindDone == fpc \in {"found", "reported"}

\* C6: after find_fuzzy_matches each GL record and each bank record appears
\* in at most one entry of fuzzy_matches.
C6_OneFuzzyMatchPerRecord ==
    FindDone =>
        \A k, l \in DOMAIN fuzzy_matches :
            k # l => /\ fuzzy_matches[k].gl_index # fuzzy_matches[l].gl_index
                     /\ fuzzy_matches[k].bank_index # fuzzy_matches[l].bank_index

\* C7: when (g, b) is accepted into fuzzy_matches, no other GL record that is
\* still unmatched scores strictly higher against b than g does.
C7_MutualBest ==
    [][(fpc = "scanning" /\ gl_pos' = gl_pos + 1) =>
         LET matched_gl == {fuzzy_matches[k].gl_index : k \in DOMAIN fuzzy_matches}
         IN \A k \in (Len(fuzzy_matches) + 1) .. Len(fuzzy_matches') :
              \A g \in DOMAIN fgl_data :
                 (/\ g - 1 # fuzzy_matches'[k].gl_index
                  /\ g - 1 \notin matched_gl)
                 => MatchInfo(g, fuzzy_matches'[k].bank_index + 1).confidence
                       <= fuzzy_matches'[k].confidence
      ]_vars

\* C8: after find_fuzzy_matches and get_unmatched_records on the same inputs,
\* 2*|fuzzy_matches| + |unmatched gl| + |unmatched bank| = |gl| + |bank|.
C8_FuzzyConservation ==
    fpc = "reported" =>
        2 * Len(fuzzy_matches) + Len(funmatched.gl) + Len(funmatched.bank)
            = Len(fgl_data) + Len(fbank_data)

\* C9: every match of the exact chain and of the fuzzy engine has a confidence
\* within [0, 100], and every match of reference_exact, amount_date_exact,
\* amount_date_description or composite_key has confidence exactly 100.
C9_ConfidenceBounds ==
    /\ matching_session.state = "session" =>
          \A k \in DOMAIN ExactMatches :
              /\ ExactMatches[k].confidence \in 0 .. 100 * Milli
              /\ ExactMatches[k].match_strategy \in KeyStrategyLabels
                    => ExactMatches[k].confidence = 100 * Milli
    /\ \A k \in DOMAIN fuzzy_matches :
          fuzzy_matches[k].confidence \in 0 .. 100 * Milli
    /\ \A k \in DOMAIN potential_matches :
          potential_matches[k].confidence \in 0 .. 100 * Milli

\* C13: every entry of fuzzy_matches has confidence >= auto_match_threshold,
\* every entry of potential_matches has min_confidence <= confidence <
\* auto_match_threshold, and a pair below min_confidence is in neither list.
C13_ThresholdBands ==
    /\ \A k \in DOMAIN fuzzy_matches :
          fuzzy_matches[k].confidence >= auto_match_threshold * Milli
    /\ \A k \in DOMAIN potential_matches :
          /\ potential_matches[k].confidence >= min_confidence * Milli
          /\ potential_matches[k].confidence < auto_match_threshold * Milli
    /\ \A g \in DOMAIN fgl_data : \A b \in DOMAIN fbank_data :
          (fpc # "off" /\ MatchInfo(g, b).confidence < min_confidence * Milli)
             => /\ MatchInfo(g, b) \notin Range(fuzzy_matches)
                /\ MatchInfo(g, b) \notin Range(potential_matches)

\* one GL row has put a candidate exactly at the auto-match threshold into
\* fuzzy_matches and one exactly at the floor into potential_matches
C13_Witness ==
    /\ FindDone
    /\ \E k \in DOMAIN fuzzy_matches :
          fuzzy_matches[k].confidence = auto_match_threshold * Milli
    /\ \E k \in DOMAIN potential_matches :
          potential_matches[k].confidence = min_confidence * Milli


\* C20: get_unmatched_records leaves out exactly the records of
\* fuzzy_matches: a record is returned as unmatched if and only if no fuzzy
\* match holds it, so a record that is only in potential_matches is returned.
C20_UnmatchedExcludesOnlyMatches ==
    fpc = "reported" =>
        /\ \A k \in DOMAIN fgl_data :
              (k - 1 \in Range(funmatched.gl))
                 <=> ~\E m \in DOMAIN fuzzy_matches : fuzzy_matches[m].gl_index = k - 1
        /\ \A k \in DOMAIN fbank_data :
              (k - 1 \in Range(funmatched.bank))
                 <=> ~\E m \in DOMAIN fuzzy_matches : fuzzy_matches[m].bank_index = k - 1
        /\ \A i, j \in DOMAIN funmatched.gl : i < j => funmatched.gl[i] < funmatched.gl[j]
        /\ \A i, j \in DOMAIN funmatched.bank : i < j => funmatched.bank[i] < funmatched.bank[j]

\* a call after which one GL record is in a fuzzy match and left out, and
\* another is only in a potential match and returned
C20_Witness ==
    /\ fpc = "reported"
    /\ fuzzy_matches # <<>>
    /\ Len(funmatched.gl) < Len(fgl_data)
    /\ \E p \in DOMAIN potential_matches :
          /\ potential_matches[p].gl_index \in Range(funmatched.gl)
          /\ \A m \in DOMAIN fuzzy_matches :
                fuzzy_matches[m].gl_index # potential_matches[p].gl_index

---------------------------------------------------------------------------
(* Properties of the exception handler *)

\* the six categories with patterns, in the order the classification is
\* specified to try them
FixedOrder ==
    <<"timing_differences", "amount_differences", "missing_transactions",
      "duplicate_transactions", "system_specific", "data_quality_issues">>

PatternOccurs(record, category) ==
    \E pattern \in exception_categories[category].patterns :
        Contains(Lower(Str(record.description)), pattern)

\* the category the classification is specified to give a record
SpecifiedCategory(record) ==
    IF \E i \in DOMAIN FixedOrder : PatternOccurs(record, FixedOrder[i])
    THEN FixedOrder[CHOOSE i \in DOMAIN FixedOrder :
                       /\ PatternOccurs(record, FixedOrder[i])
                       /\ \A j \in 1..(i - 1) : ~PatternOccurs(record, FixedOrder[j])]
    ELSE IF ~record.amount.missing /\ Abs(record.amount.v) < 10 * PerUnit
         THEN "amount_differences"
    ELSE IF /\ ~record.amount.missing
            /\ record.amount.v % (100 * PerUnit) = 0
            /\ Abs(record.amount.v) > 1000 * PerUnit
         THEN "system_specific"
    ELSE "unknown"

\* the categories under which the results list the record
CategoriesOf(categorized, record) ==
    {category \in DOMAIN categorized :
        \E k \in DOMAIN categorized[category] :
            categorized[category][k].original_index = RecordIndex(record)}

ExceptionsReturned == xpc = "returned"

\* C15: every unmatched record is listed under the first category, in the
\* fixed order, that has a pattern occurring in its description; without any
\* pattern the amount rules decide (|amount| < 10 amount_differences, else a
\* multiple of 100 above 1000 system_specific), else it is unknown; so a
\* description containing "pending" is timing_differences, auto_resolvable.
C15_ClassificationOrder ==
    ExceptionsReturned =>
        /\ \A k \in DOMAIN unmatched_df1 :
              CategoriesOf(exception_results.categorized_exceptions.gl,
                           unmatched_df1[k])
                 = {SpecifiedCategory(unmatched_df1[k])}
        /\ \A k \in DOMAIN unmatched_df2 :
              CategoriesOf(exception_results.categorized_exceptions.bank,
                           unmatched_df2[k])
                 = {SpecifiedCategory(unmatched_df2[k])}
        /\ \A k \in DOMAIN unmatched_df1 :
              Contains(Lower(Str(unmatched_df1[k].description)),
                       <<"p", "e", "n", "d", "i", "n", "g">>)
                 => /\ CategoriesOf(exception_results.categorized_exceptions.gl,
                                    unmatched_df1[k]) = {"timing_differences"}
                    /\ exception_categories["timing_differences"].auto_resolvable
        /\ \A k \in DOMAIN unmatched_df2 :
              Contains(Lower(Str(unmatched_df2[k].description)),
                       <<"p", "e", "n", "d", "i", "n", "g">>)
                 => /\ CategoriesOf(exception_results.categorized_exceptions.bank,
                                    unmatched_df2[k]) = {"timing_differences"}
                    /\ exception_categories["timing_differences"].auto_resolvable

\* a run where a description with patterns of two categories ("pending",
\* "fee") went to the earlier one, one with a pattern and a round amount went
\* by its pattern, and one without patterns went by its amount
C15_Witness ==
    /\ ExceptionsReturned
    /\ \E k \in DOMAIN unmatched_df1 :
          /\ PatternOccurs(unmatched_df1[k], "timing_differences")
          /\ PatternOccurs(unmatched_df1[k], "amount_differences")
          /\ CategoriesOf(exception_results.categorized_exceptions.gl,
                          unmatched_df1[k]) = {"timing_differences"}
    /\ \E k \in DOMAIN unmatched_df2 :
          /\ PatternOccurs(unmatched_df2[k], "amount_differences")
          /\ unmatched_df2[k].amount = Num(2000 * PerUnit)
          /\ CategoriesOf(exception_results.categorized_exceptions.bank,
                          unmatched_df2[k]) = {"amount_differences"}
    /\ \E k \in DOMAIN unmatched_df2 :
          /\ \A i \in DOMAIN FixedOrder : ~PatternOccurs(unmatched_df2[k], FixedOrder[i])
          /\ CategoriesOf(exception_results.categorized_exceptions.bank,
                          unmatched_df2[k]) = {"system_specific"}

\* the exception records of both sides, and the groups of them that share
\* the first KeyWordCount words of the normalized description
AllExceptionRecords == unmatched_df1 \o unmatched_df2

GroupSize(key) ==
    Len(SelectSeq(AllExceptionRecords, LAMBDA r : KeyWords(r) = key))

LargeGroups ==
    {key \in {KeyWords(r) : r \in Range(AllExceptionRecords)} :
        key # <<>> /\ GroupSize(key) >= MinGroupSize}

BulkSuggestionsReturned ==
    SelectSeq(exception_results.resolution_suggestions,
              LAMBDA x : x.type = "bulk_resolution_opportunity")

\* C19: every group of MinGroupSize or more exception records sharing their
\* first three normalized words gets a bulk-resolution suggestion whose
\* record_count is the size of the group, up to MaxBulkSuggestions suggestions.
C19_BulkSuggestionPerGroup ==
    ExceptionsReturned =>
        /\ Len(BulkSuggestionsReturned)
              = Min(Cardinality(LargeGroups), MaxBulkSuggestions)
        /\ Cardinality(LargeGroups) <= MaxBulkSuggestions =>
              \A key \in LargeGroups :
                  \E k \in DOMAIN BulkSuggestionsReturned :
                      /\ BulkSuggestionsReturned[k].pattern = key
                      /\ BulkSuggestionsReturned[k].record_count = GroupSize(key)

---------------------------------------------------------------------------
(* Properties of the workflow *)

WorkflowFinished == workflow = "exceptions" /\ xpc = "returned"

\* how many exact matches, fuzzy matches and exception records hold the
\* record of a side ("gl" or "bank") whose position in the input is i + 1
ExactMatchesOf(side, i) ==
    Len(SelectSeq(matching_session.exact_matches,
                  LAMBDA m : (IF side = "gl" THEN m.gl_index ELSE m.bank_index) = i))

FuzzyMatchesOf(side, i) ==
    Len(SelectSeq(fuzzy_matches,
                  LAMBDA m : IF side = "gl"
                             THEN fgl_data[m.gl_index + 1].original_index = i
                             ELSE fbank_data[m.bank_index + 1].original_index = i))

ExceptionRecordsOf(side, i) ==
    LET categorized == exception_results.categorized_exceptions[side]
    IN Cardinality({<<category, k>> \in (DOMAIN categorized) \X (1..MaxWorkflowRows) :
                       /\ k \in DOMAIN categorized[category]
                       /\ categorized[category][k].original_index = i})

EndsOf(side, i) ==
    ExactMatchesOf(side, i) + FuzzyMatchesOf(side, i) + ExceptionRecordsOf(side, i)

\* C14: a workflow run on two valid frames finishes, and then every input
\* record is in exactly one exact match, fuzzy match or exception record.
C14_WorkflowPartition ==
    /\ workflow = "failed" => _validate_reconciliation_data(gl_data, bank_data)
    /\ WorkflowFinished =>
          /\ \A k \in DOMAIN gl_data.rows : EndsOf("gl", k - 1) = 1
          /\ \A k \in DOMAIN bank_data.rows : EndsOf("bank", k - 1) = 1

\* the finished runs alone: no record is lost and none is both matched and
\* an exception
WorkflowKindsDisjoint ==
    WorkflowFinished =>
        \A side \in {"gl", "bank"} :
        \A k \in DOMAIN (IF side = "gl" THEN gl_data.rows ELSE bank_data.rows) :
            /\ EndsOf(side, k - 1) >= 1
            /\ ExceptionRecordsOf(side, k - 1) <= 1
            /\ ExceptionRecordsOf(side, k - 1) = 1
                  => ExactMatchesOf(side, k - 1) + FuzzyMatchesOf(side, k - 1) = 0
            /\ ExactMatchesOf(side, k - 1) = 0 \/ FuzzyMatchesOf(side, k - 1) = 0

---------------------------------------------------------------------------
(* Further properties of the exact chain *)

\* the reference_exact turn of the strategy loop
ReferenceTurn ==
    /\ ApplyStrategy
    /\ StrategiesOf(match_strategies)[strategy_pos + 1] = "reference_exact"
    /\ pc' = "matching"

NoReference(pool) == \A k \in DOMAIN pool : pool[k].reference_normalized = <<>>

\* C21: no reference_exact match involves a record whose normalized
\* reference is empty, and when no record of either pool has a non-empty
\* reference the reference_exact turn emits no match and leaves both pools
\* as they were.
C21_ReferenceOnlyAmongReferenced ==
    [][ReferenceTurn =>
          /\ \A n \in DOMAIN NewMatches :
                LET g == gl_prepared[PoolPosition(gl_prepared, NewMatches[n].gl_index)]
                    b == bank_prepared[PoolPosition(bank_prepared, NewMatches[n].bank_index)]
                IN /\ NewMatches[n].match_strategy = "reference_exact"
                   /\ g.reference_normalized # <<>>
                   /\ b.reference_normalized # <<>>
          /\ (NoReference(gl_prepared) /\ NoReference(bank_prepared)) =>
                /\ NewMatches = <<>>
                /\ gl_prepared' = gl_prepared
                /\ bank_prepared' = bank_prepared]_vars

\* reference_exact has run twice: the first turn paired two referenced
\* records and left a record without a reference in the pool, the second
\* turn found no reference on either side
C21_Witness ==
    /\ match_strategies = <<"reference_exact", "reference_exact">>
    /\ pc = "matching"
    /\ strategy_pos = 2
    /\ Len(ExactMatches) = 1
    /\ Len(gl_prepared) + Len(bank_prepared) > 0
    /\ NoReference(gl_prepared) /\ NoReference(bank_prepared)

\* the matches of a session whose confidence lies in a band: perfect is the
\* maximum (1.0), high is 95% of it or more, medium 90% or more
InBand(m, band) ==
    IF band = "perfect" THEN m.confidence = 1000
    ELSE IF band = "high" THEN 950 <= m.confidence /\ m.confidence < 1000
    ELSE IF band = "medium" THEN 900 <= m.confidence /\ m.confidence < 950
    ELSE m.confidence < 900

Bands == {"perfect", "high", "medium", "acceptable"}

MatchStatistics == matching_session.match_statistics

\* C25: in the statistics of a finished session every exact match is counted
\* in exactly one confidence band and in exactly one strategy_breakdown
\* entry: the four band counts, and the counts by strategy, each add up to
\* total_exact_matches.
C25_StatisticsPartition ==
    pc = "done" =>
        /\ MatchStatistics.total_exact_matches = Len(ExactMatches)
        /\ DOMAIN MatchStatistics.confidence_distribution = Bands
        /\ \A band \in Bands :
               MatchStatistics.confidence_distribution[band]
                  = Cardinality({k \in DOMAIN ExactMatches : InBand(ExactMatches[k], band)})
        /\ SumOver(Bands, MatchStatistics.confidence_distribution)
              = MatchStatistics.total_exact_matches
        /\ DOMAIN MatchStatistics.strategy_breakdown
              = {ExactMatches[k].match_strategy : k \in DOMAIN ExactMatches}
        /\ \A st \in DOMAIN MatchStatistics.strategy_breakdown :
               MatchStatistics.strategy_breakdown[st]
                  = Cardinality({k \in DOMAIN ExactMatches :
                                    ExactMatches[k].match_strategy = st})
        /\ SumOver(DOMAIN MatchStatistics.strategy_breakdown,
                   MatchStatistics.strategy_breakdown)
              = MatchStatistics.total_exact_matches

\* a finished session with a perfect match and a match of lower confidence
C25_Witness ==
    /\ pc = "done"
    /\ MatchStatistics.confidence_distribution["perfect"] >= 1
    /\ MatchStatistics.confidence_distribution["high"] >= 1
    /\ MatchStatistics.total_exact_matches = 2

\* a run with the default strategy list
DefaultRun == HasSession /\ match_strategies = <<>>

\* the (date, rounded amount) keys of a pool
PoolKeys(pool) == {pool[k].amount_date_key : k \in DOMAIN pool}

\* C26: in a run with the default strategy order, once amount_date_exact has
\* run no (date, rounded amount) key is in both pools, amount_date_desc and
\* composite_key find no match, and every match of the run has the strategy
\* reference_exact, amount_date_exact or amount_tolerance.
C26_DefaultOrderShadowsKeyStrategies ==
    DefaultRun =>
        /\ \A k \in DOMAIN ExactMatches :
               ExactMatches[k].match_strategy \in
                   {"reference_exact", "amount_date_exact", "amount_tolerance"}
        /\ strategy_pos >= 2 => PoolKeys(gl_prepared) \cap PoolKeys(bank_prepared) = {}
        /\ \A st \in {"amount_date_desc", "composite_key"} :
               st \in DOMAIN performance_stats => performance_stats[st].matches_found = 0

\* a default run that ended: amount_date_exact paired two records, and
\* amount_date_desc and composite_key then ran on pools that both held
\* records
C26_Witness ==
    /\ DefaultRun
    /\ pc = "done"
    /\ \E k \in DOMAIN ExactMatches : ExactMatches[k].match_strategy = "amount_date_exact"
    /\ performance_stats["amount_date_desc"].gl_remaining > 0
    /\ performance_stats["amount_date_desc"].bank_remaining > 0
    /\ performance_stats["composite_key"].gl_remaining > 0
    /\ performance_stats["composite_key"].bank_remaining > 0

\* the prepared form of the record of a frame that an unmatched record
\* names by its original_index
OfThisCall(unmatched, data, data_type) ==
    \A k \in DOMAIN unmatched :
        /\ unmatched[k].original_index + 1 \in DOMAIN data.rows
        /\ unmatched[k] = _prepare_exact_matching_data(data, data_type)
                              [unmatched[k].original_index + 1]

\* C27: the session a call returns holds the matches a new engine finds on
\* the inputs and the strategy list of this call, unmatched records of the
\* inputs of this call, and performance entries of the strategies of this
\* call only, whatever an earlier call on the same engine left.
C27_SessionFromScratch ==
    (pc = "done" /\ outcome = "session") =>
        /\ ExactMatches
              = RunEngine(gl_data, bank_data, match_strategies, params).matches
        /\ OfThisCall(matching_session.unmatched_gl, gl_data, "gl")
        /\ OfThisCall(matching_session.unmatched_bank, bank_data, "bank")
        /\ DOMAIN matching_session.strategy_performance
              \subseteq Range(StrategiesOf(match_strategies))

\* what C27 says of the matches and of the unmatched records alone
SessionResultsFromScratch ==
    (pc = "done" /\ outcome = "session") =>
        /\ ExactMatches
              = RunEngine(gl_data, bank_data, match_strategies, params).matches
        /\ OfThisCall(matching_session.unmatched_gl, gl_data, "gl")
        /\ OfThisCall(matching_session.unmatched_bank, bank_data, "bank")

\* what the two accessors answer in the current state of the engine
Results == get_reconciliation_results(matching_session)
Unmatched == engine_get_unmatched_records(matching_session)

\* the call under way or just ended is the first on this engine
FirstCall == workflow \in {"none", "first_call", "exact"}

\* the session is the one of the most recent call
OfMostRecentCall(session) ==
    /\ session.gl_count = Len(gl_data.rows)
    /\ session.bank_count = Len(bank_data.rows)
    /\ session.strategies_used = StrategiesOf(match_strategies)

\* C28: before the first call get_reconciliation_results raises and
\* get_unmatched_records returns two empty sets; after a call, one that
\* raised included, both answer from the session of the most recent call,
\* and after a call that failed validation that session holds no match and
\* no unmatched record.
C28_AccessorsFollowLastCall ==
    /\ (pc = "idle" /\ FirstCall) =>
           /\ Results.raised
           /\ Unmatched = [gl |-> <<>>, bank |-> <<>>]
    /\ pc \in {"done", "failed"} =>
           /\ ~Results.raised
           /\ OfMostRecentCall(Results.results)
           /\ Unmatched = [gl   |-> Results.results.unmatched_gl,
                           bank |-> Results.results.unmatched_bank]
           /\ OfThisCall(Unmatched.gl, gl_data, "gl")
           /\ OfThisCall(Unmatched.bank, bank_data, "bank")
    /\ (pc = "failed" /\ _validate_reconciliation_data(gl_data, bank_data)) =>
           /\ Results.results.exact_matches = <<>>
           /\ Unmatched = [gl |-> <<>>, bank |-> <<>>]

\* the second call on an engine failed validation after a first call that
\* had found a match and left a record unmatched
C28_Witness ==
    /\ workflow = "second_call"
    /\ pc = "failed"
    /\ _validate_reconciliation_data(gl_data, bank_data)
    /\ \E st \in DOMAIN performance_stats :
          /\ performance_stats[st].matches_found > 0
          /\ performance_stats[st].gl_remaining + performance_stats[st].bank_remaining > 0
    /\ ~Results.raised
    /\ Results.results.exact_matches = <<>>

\* a turn of the strategy loop on a name that is not one of the five
UnknownTurn ==
    /\ ApplyStrategy
    /\ StrategiesOf(match_strategies)[strategy_pos + 1] \notin StrategyNames

\* the strategies among the first n of the call that the engine knows
KnownAmongFirst(n) ==
    SelectSeq(SubSeq(StrategiesOf(match_strategies), 1, n),
              LAMBDA st : st \in StrategyNames)

\* the turn on an unknown name adds no match, leaves both pools as they
\* were, does not end the run and moves on to the next strategy
UnknownTurnIsNeutral ==
    UnknownTurn =>
        /\ NewMatches = <<>>
        /\ matching_session'.exact_matches = matching_session.exact_matches
        /\ gl_prepared' = gl_prepared
        /\ bank_prepared' = bank_prepared
        /\ pc' = "matching"
        /\ outcome' = outcome
        /\ strategy_pos' = strategy_pos + 1

\* while the loop runs and when the call has returned, the matches are
\* those of the known strategies met so far, applied in their order
KnownStrategiesApplied ==
    pc \in {"matching", "done"} =>
        LET known == RunChain(KnownAmongFirst(strategy_pos),
                              _prepare_exact_matching_data(gl_data, "gl"),
                              _prepare_exact_matching_data(bank_data, "bank"),
                              <<>>, params)
        IN /\ ~known.raised
           /\ ExactMatches = known.matches
           /\ pc = "done" => strategy_pos = Len(StrategiesOf(match_strategies))

\* C29: a strategy name that is not one of the five known names produces no
\* match and leaves both candidate pools unchanged, does not abort the run,
\* and the strategies listed after it are still applied in order.
C29_UnknownStrategySkipped ==
    [](KnownStrategiesApplied) /\ [][UnknownTurnIsNeutral]_vars

\* a call with an unknown name first has returned: the unknown turn ran on
\* pools that both held records, and the strategy after it paired two
C29_Witness ==
    /\ Len(match_strategies) = 2
    /\ match_strategies[1] = "unknown_strategy"
    /\ match_strategies[2] \in StrategyNames
    /\ pc = "done"
    /\ performance_stats["unknown_strategy"].matches_found = 0
    /\ performance_stats["unknown_strategy"].gl_remaining > 0
    /\ performance_stats["unknown_strategy"].bank_remaining > 0
    /\ Len(ExactMatches) > 0

---------------------------------------------------------------------------
(* Further properties of the exception handler *)

NearSuggestions ==
    SelectSeq(exception_results.resolution_suggestions,
              LAMBDA g : g.type = "near_match_opportunity")

\* the pair of row positions (side 1, side 2) a suggestion names
PairOf(suggestion) ==
    <<suggestion.records[1].index + 1, suggestion.records[2].index + 1>>

\* amounts at most 0.01 apart and dates 3 to 10 days apart
Qualifies(i, j) ==
    LET a == unmatched_df1[i]
        b == unmatched_df2[j]
    IN /\ ~a.amount.missing /\ ~b.amount.missing
       /\ ~a.date.missing /\ ~b.date.missing
       /\ a.amount.v - b.amount.v \in (0 - PerUnit \div 100)..(PerUnit \div 100)
       /\ \E gap \in 3..10 : a.date.v - b.date.v \in {gap, 0 - gap}

\* input order: side-1 record outer, side-2 record inner
Before(p, q) == p[1] < q[1] \/ (p[1] = q[1] /\ p[2] < q[2])

Dated(df) == {k \in DOMAIN df : ~df[k].date.missing}

\* the ages the name of a bucket stands for; a record dated after the day
\* of the call is younger than a day
NamedAges(b) ==
    IF b = "0-7_days" THEN (0 - 366)..7
    ELSE IF b = "8-30_days" THEN 8..30
    ELSE IF b = "31-90_days" THEN 31..90
    ELSE IF b = "91-365_days" THEN 91..365
    ELSE 366..(2 * 366)

\* the buckets of one side add up to its dated records, each bucket holding
\* the records of its ages
BucketsCover(df, side_aging) ==
    df # <<>> =>
        /\ DOMAIN side_aging.age_buckets = AgeBucketNames
        /\ \A b \in AgeBucketNames :
               side_aging.age_buckets[b]
                  = Cardinality({k \in Dated(df) :
                                    current_date - df[k].date.v \in NamedAges(b)})
        /\ side_aging.age_buckets["0-7_days"] + side_aging.age_buckets["8-30_days"]
              + side_aging.age_buckets["31-90_days"]
              + side_aging.age_buckets["91-365_days"]
              + side_aging.age_buckets["over_365_days"]
           = Cardinality(Dated(df))

\* C24: in the aging analysis every unmatched record that has a date is
\* counted in exactly one of the buckets 0-7, 8-30, 31-90, 91-365 and over
\* 365 days, so the bucket counts of each side add up to the number of its
\* dated records.
C24_AgeBucketsPartition ==
    xpc = "returned" =>
        /\ BucketsCover(unmatched_df1, exception_results.aging_analysis.df1_aging)
        /\ BucketsCover(unmatched_df2, exception_results.aging_analysis.df2_aging)

\* a side with a record 8 days old, a record older than a year and a record
\* without a date
C24_Witness ==
    /\ xpc = "returned"
    /\ Len(unmatched_df1) = 3
    /\ Cardinality(Dated(unmatched_df1)) = 2
    /\ exception_results.aging_analysis.df1_aging.age_buckets["8-30_days"] = 1
    /\ exception_results.aging_analysis.df1_aging.age_buckets["over_365_days"] = 1
    /\ \E k \in Dated(unmatched_df1) : current_date - unmatched_df1[k].date.v = 8


\* the places (category, position) of the category lists of one side; a
\* side that was not categorized has none
Places(side_categorized) ==
    UNION {{<<category, n>> : n \in DOMAIN side_categorized[category]} :
              category \in DOMAIN side_categorized}

\* the places of a side that hold the record with a given index
PlacesOf(side_categorized, data_type, index) ==
    {p \in Places(side_categorized) :
        /\ side_categorized[p[1]][p[2]].original_index = index
        /\ side_categorized[p[1]][p[2]].data_type = data_type
        /\ side_categorized[p[1]][p[2]].category = p[1]}

\* every record of the frame has one place among the lists of its side, and
\* the lists hold nothing else
OnePlaceEach(df, side_categorized, data_type) ==
    /\ \A k \in DOMAIN df :
          Cardinality(PlacesOf(side_categorized, data_type, RecordIndex(df[k]))) = 1
    /\ Cardinality(Places(side_categorized)) = Len(df)

\* the places of both sides in categories flagged auto_resolvable
AutoResolvablePlaces(categorized) ==
    Cardinality({p \in Places(categorized.gl) :
                    exception_categories[p[1]].auto_resolvable})
    + Cardinality({p \in Places(categorized.bank) :
                      exception_categories[p[1]].auto_resolvable})

\* C30: process_exceptions places every unmatched record in exactly one
\* category list of its own side, so the category_distribution counts sum to
\* total_exceptions (the sum of both input sizes) and auto_resolvable_count +
\* manual_review_count = total_exceptions, with auto_resolvable_count equal
\* to the number of records in categories flagged auto_resolvable.
C30_CategoriesPartitionExceptions ==
    ExceptionsReturned =>
        LET categorized == exception_results.categorized_exceptions
            stats == exception_results.statistics
        IN /\ OnePlaceEach(unmatched_df1, categorized.gl, "gl")
           /\ OnePlaceEach(unmatched_df2, categorized.bank, "bank")
           /\ stats.total_exceptions = Len(unmatched_df1) + Len(unmatched_df2)
           /\ SumOver(DOMAIN stats.category_distribution, stats.category_distribution)
                 = stats.total_exceptions
           /\ stats.auto_resolvable_count + stats.manual_review_count
                 = stats.total_exceptions
           /\ stats.auto_resolvable_count = AutoResolvablePlaces(categorized)

\* a call on two frames with rows has returned: records went to an
\* auto_resolvable category, to one for manual review and to unknown, and a
\* category holds records of both sides
C30_Witness ==
    /\ ExceptionsReturned
    /\ unmatched_df1 # <<>>
    /\ unmatched_df2 # <<>>
    /\ exception_results.statistics.auto_resolvable_count > 0
    /\ exception_results.statistics.manual_review_count > 0
    /\ exception_results.statistics.category_distribution["unknown"] > 0
    /\ exception_results.statistics.category_distribution["system_specific"] > 0
    /\ \E category \in Range(CategoryOrder) :
          /\ exception_results.categorized_exceptions.gl[category] # <<>>
          /\ exception_results.categorized_exceptions.bank[category] # <<>>

=========================================================================
